---- MODULE Spec2Model ----
(***************************************************************************)
(* A model of feco3, a streaming parser of .FEC filings.                   *)
(*                                                                         *)
(* Strings of the program that are read from the input (versions, line     *)
(* codes, field values) are tuples of one-character strings, so that the   *)
(* byte-level operations of the code (splitting on a delimiter, searching  *)
(* for "/*", lower-casing, trimming) are computed and not assumed.  Field  *)
(* names of schemas, which the code only compares for equality, are TLA+   *)
(* strings.                                                                *)
(***************************************************************************)
EXTENDS Integers, Sequences, FiniteSets, TLC

(***************************************************************************)
(* Bounds of the model.                                                    *)
(***************************************************************************)
\* Calls of lookup_schema started in one behaviour of the registry.
MaxCalls == 3
\* Raw fields (the line code included) of a line handed to a line parser.
MaxRawLen == 4
\* Lines after the header in a filing.
MaxBodyLines == 3

VARIABLES
    \* ---- schema registry (schemas/lookup.rs) ----
    CACHE,      \* the HashMap behind the Mutex: a set of [key, ref] entries
    heap,       \* the leaked boxes: heap[r] is the RecordSchema behind reference r
    pc,         \* per thread: position inside lookup_schema
    tkey,       \* per thread: the key of the call in progress
    tlocal,     \* per thread: the reference do_lookup returned to it
    returned,   \* history: the set of [key, res] a call of lookup_schema returned
    writes,     \* history: the sequence of keys CACHE.insert was called with
    ncalls,     \* history: the number of calls started
    \* ---- line parsers (schemas/parse.rs) ----
    pcall,      \* the call of a line parser made, with its outcome
    \* ---- FecFile (fec.rs) ----
    input,      \* the bytes behind the byte source
    filing,     \* history: the header and the lines the bytes were written from
    fec,        \* the FecFile: reader, header, cover, sep, csv_reader
    last,       \* the last call made on the FecFile, with its result
    emitted,    \* history: the lines next_line returned, in order
    hspan,      \* history: where the header decoder started and stopped
    nheader,    \* history: the number of times the header was set
    ncover,     \* history: the number of times the cover was set
    outcomes,   \* history: the kinds of outcome the FecFile has given so far
    \* ---- record writers (writers/base.rs, csv.rs, parquet.rs, arrow.rs) ----
    mw,         \* the MultiRecordWriter: its factory and its writers
    disk,       \* the file system: the directories and the files created
    whist,      \* history: writers made, records forwarded, writers finished
    wlast       \* the last call made on the writers, with its result

lookupVars == <<CACHE, heap, pc, tkey, tlocal, returned, writes, ncalls>>

parseVars == <<pcall>>

fecVars == <<input, filing, fec, last, emitted, hspan, nheader, ncover, outcomes>>

writerVars == <<mw, disk, whist, wlast>>

vars == <<lookupVars, parseVars, fecVars, writerVars>>

(***************************************************************************)
(* Characters and strings.                                                 *)
(***************************************************************************)
UPPER == <<"A","B","C","D","E","F","G","H","I","J","K","L","M",
           "N","O","P","Q","R","S","T","U","V","W","X","Y","Z">>
LOWER == <<"a","b","c","d","e","f","g","h","i","j","k","l","m",
           "n","o","p","q","r","s","t","u","v","w","x","y","z">>

LowerTable ==
    [c \in {UPPER[i] : i \in 1..Len(UPPER)} |->
        LOWER[CHOOSE i \in 1..Len(UPPER) : UPPER[i] = c]]

\* char::to_lowercase on the ASCII range.
to_lowercase_char(c) == IF c \in DOMAIN LowerTable THEN LowerTable[c] ELSE c

\* str::to_lowercase.
to_lowercase(s) == [i \in 1..Len(s) |-> to_lowercase_char(s[i])]

\* s starts with the string p.
StartsWith(s, p) == Len(s) >= Len(p) /\ SubSeq(s, 1, Len(p)) = p

(***************************************************************************)
(* The strings of the model's inputs.                                      *)
(***************************************************************************)
V83    == <<"8",".","3">>
V202   == <<"2",".","0","2">>
S_HDR  == <<"H","D","R">>
S_FEC  == <<"F","E","C">>
S_F3XN == <<"F","3","X","N">>
S_SA11 == <<"S","A","1","1">>
S_sa11 == <<"s","a","1","1">>
S_ZZZ  == <<"Z","Z","Z">>

Versions  == {V83, V202}
LineCodes == {S_F3XN, S_SA11, S_sa11, S_ZZZ}

(***************************************************************************)
(* The regular expressions of the mapping table.  A pattern of the table   *)
(* is an anchored literal, "^text" (prefix) or "^text$" (full); the regex  *)
(* is built case-insensitive (make_regex).                                 *)
(***************************************************************************)
Prefix(text) == [anchor |-> "prefix", text |-> text]
Full(text)   == [anchor |-> "full", text |-> text]

\* regex::Regex::is_match of a pattern built by make_regex: case-insensitive.
is_match(regex, s) ==
    LET t == to_lowercase(regex.text)
        l == to_lowercase(s)
    IN  IF regex.anchor = "full" THEN l = t ELSE StartsWith(l, t)

\* The same match with the case_insensitive(true) of make_regex left out.
is_match_case_sensitive(regex, s) ==
    IF regex.anchor = "full" THEN s = regex.text ELSE StartsWith(s, regex.text)

(***************************************************************************)
(* MAPPINGS: the table load_mappings builds from mappings.json, an ordered *)
(* list of (line-code regex, ordered list of (version regex, field         *)
(* names)).  The table below is a small one of the same shape; it holds a  *)
(* line-code pattern whose versions do not cover every version (^f3x), a   *)
(* later pattern that matches the same line codes (^f3), two version       *)
(* patterns of one entry that match the same version (^8.3, ^8), and a     *)
(* pattern for line codes that hold a slash (SC/10).                       *)
(***************************************************************************)
MAPPINGS == <<
    [regex |-> Full(<<"h","d","r">>),
     versions |-> <<
        [regex |-> Prefix(<<"8">>),
         fields |-> <<"record_type", "ef_type", "fec_version", "soft_name",
                      "soft_ver", "report_id", "report_number">>] >>],
    [regex |-> Prefix(<<"f","3","x">>),
     versions |-> <<
        [regex |-> Prefix(<<"8",".","3">>),
         fields |-> <<"form_type", "filer_committee_id_number",
                      "committee_name">>] >>],
    [regex |-> Prefix(<<"f","3">>),
     versions |-> <<
        [regex |-> Prefix(<<"8">>),
         fields |-> <<"form_type", "filer_committee_id_number",
                      "change_of_address">>],
        [regex |-> Prefix(<<"2">>),
         fields |-> <<"form_type", "filer_committee_id_number">>] >>],
    [regex |-> Prefix(<<"s","a">>),
     versions |-> <<
        [regex |-> Prefix(<<"8",".","3">>),
         fields |-> <<"form_type", "filer_committee_id_number",
                      "transaction_id", "contributor_name">>],
        [regex |-> Prefix(<<"8">>),
         fields |-> <<"form_type", "filer_committee_id_number",
                      "transaction_id">>] >>],
    [regex |-> Prefix(<<"s","c">>),
     versions |-> <<
        [regex |-> Prefix(<<"8">>),
         fields |-> <<"form_type", "filer_committee_id_number">>] >>]
>>

(***************************************************************************)
(* do_lookup (schemas/lookup.rs).                                          *)
(***************************************************************************)
\* The error do_lookup returns: a String message that names the line code and
\* the version.
LookupErr(version, line_code) ==
    [ok |-> FALSE,
     err |-> [kind |-> "String", message |-> "Couldn't find schema",
              line_code |-> line_code, version |-> version]]

\* One FieldSchema for every name of the list, the first one included.
FieldSchemasOfAllNames(fields) ==
    [i \in 1..Len(fields) |-> [name |-> fields[i], typ |-> "String"]]

\* fields.iter().skip(1), each name given the type String.
FieldSchemas(fields) ==
    [i \in 1..(IF Len(fields) > 0 THEN Len(fields) - 1 ELSE 0) |->
        [name |-> fields[i + 1], typ |-> "String"]]

\* The inner loop: the first version entry, from index j on, whose regex
\* matches the version.
RECURSIVE ScanVersions(_, _, _)
ScanVersions(versions_and_schemas, version, j) ==
    IF j > Len(versions_and_schemas) THEN [found |-> FALSE]
    ELSE IF ~is_match(versions_and_schemas[j].regex, version)
         THEN ScanVersions(versions_and_schemas, version, j + 1)
         ELSE [found |-> TRUE, fields |-> versions_and_schemas[j].fields]

\* The outer loop with the inner loop failing the lookup when no version of a
\* matching line-code pattern matches.
RECURSIVE ScanMappingsStopAtFirstCode(_, _, _)
ScanMappingsStopAtFirstCode(version, line_code, i) ==
    IF i > Len(MAPPINGS) THEN LookupErr(version, line_code)
    ELSE IF ~is_match(MAPPINGS[i].regex, line_code)
         THEN ScanMappingsStopAtFirstCode(version, line_code, i + 1)
         ELSE LET r == ScanVersions(MAPPINGS[i].versions, version, 1)
              IN  IF r.found
                  THEN [ok |-> TRUE,
                        schema |-> [code |-> line_code,
                                    fields |-> FieldSchemas(r.fields)]]
                  ELSE LookupErr(version, line_code)

\* The outer loop: from index i on, the first line-code pattern that matches
\* and has a matching version; a pattern with no matching version falls
\* through to the next one.
RECURSIVE ScanMappings(_, _, _)
ScanMappings(version, line_code, i) ==
    IF i > Len(MAPPINGS) THEN LookupErr(version, line_code)
    ELSE IF ~is_match(MAPPINGS[i].regex, line_code)
         THEN ScanMappings(version, line_code, i + 1)
         ELSE LET r == ScanVersions(MAPPINGS[i].versions, version, 1)
              IN  IF r.found
                  THEN [ok |-> TRUE,
                        schema |-> [code |-> line_code,
                                    fields |-> FieldSchemas(r.fields)]]
                  ELSE ScanMappings(version, line_code, i + 1)

do_lookup_first_code_only(version, line_code) ==
    ScanMappingsStopAtFirstCode(version, line_code, 1)

\* The schema found (not yet leaked), or the error.
do_lookup(version, line_code) == ScanMappings(version, line_code, 1)

(***************************************************************************)
(* lookup_schema and its process-wide cache (schemas/lookup.rs).           *)
(***************************************************************************)
Threads == {1, 2}

Key(version, line_code) == [version |-> version, line_code |-> line_code]

\* CACHE.lock().unwrap().get(&key): the reference cached under key, 0 for None.
cache_get(cache, key) ==
    IF \E e \in cache : e.key = key
    THEN (CHOOSE e \in cache : e.key = key).ref
    ELSE 0

\* An insert that keeps the entry already present under the key.
cache_insert_if_absent(cache, key, ref) ==
    IF \E e \in cache : e.key = key THEN cache
    ELSE cache \cup {[key |-> key, ref |-> ref]}

\* A lookup_schema that never caches what it resolved.
cache_insert_dropped(cache, key, ref) == cache

\* CACHE.lock().unwrap().insert(key, schema): HashMap::insert puts the value
\* under the key and replaces the one that was there.
cache_insert(cache, key, ref) ==
    {e \in cache : e.key # key} \cup {[key |-> key, ref |-> ref]}

\* Box::leak(Box::new(schema)): a new allocation, never freed or moved.
leak(hp, schema) == [heap |-> Append(hp, schema), ref |-> Len(hp) + 1]

OkRef(ref) == [ok |-> TRUE, ref |-> ref]

\* One whole call of lookup_schema on the cache and heap given, run without
\* interruption: the result, the cache and the heap after it, and whether
\* CACHE.insert was called.
lookup_schema(cache, hp, version, line_code) ==
    LET key == Key(version, line_code)
        hit == cache_get(cache, key)
        leaked(l) ==
            [res |-> OkRef(l.ref), cache |-> cache_insert(cache, key, l.ref),
             heap |-> l.heap, hit |-> FALSE, inserted |-> TRUE]
        resolved(r) ==
            IF ~r.ok
            THEN [res |-> r, cache |-> cache, heap |-> hp,
                  hit |-> FALSE, inserted |-> FALSE]
            ELSE leaked(leak(hp, r.schema))
    IN  IF hit # 0
        THEN [res |-> OkRef(hit), cache |-> cache, heap |-> hp,
              hit |-> TRUE, inserted |-> FALSE]
        ELSE resolved(do_lookup(version, line_code))

\* Option and Result.
Some(x) == [some |-> TRUE, v |-> x]
None    == [some |-> FALSE]

Ok(x)            == [kind |-> "ok", v |-> x]
Err(kind, msg)   == [kind |-> "err", err |-> [kind |-> kind, message |-> msg]]
Panic(msg)       == [kind |-> "panic", message |-> msg]

\* The value ().
Unit == <<>>

\* The locals of a thread that is not inside lookup_schema.
NoKey == Key(<<>>, <<>>)

Returned(key, res, hit) == [key |-> key, res |-> res, hit |-> hit]

InitRegistry ==
    /\ CACHE = {}
    /\ heap = <<>>
    /\ pc = [t \in Threads |-> "idle"]
    /\ tkey = [t \in Threads |-> NoKey]
    /\ tlocal = [t \in Threads |-> 0]
    /\ returned = {}
    /\ writes = <<>>
    /\ ncalls = 0
    /\ pcall = [op |-> "none"]
    /\ last = [op |-> "none"]
    /\ emitted = <<>>
    /\ outcomes = {}
    /\ hspan = None
    /\ nheader = 0
    /\ ncover = 0

\* The registry and the line parsers are exercised without a filing.
\* No FecFile and no record writer is in use.
InitNoFec ==
    /\ input = <<>>
    /\ filing = None
    /\ fec = [reader |-> None, header |-> None, cover |-> None,
              sep |-> None, csv_reader |-> None]

InitNoWriters ==
    /\ mw = [factory |-> None, writers |-> {}]
    /\ disk = [dirs |-> {}, files |-> {}]
    /\ whist = [calls |-> <<>>, records |-> <<>>, made |-> <<>>,
                forwarded |-> <<>>, finishes |-> <<>>,
                batches |-> <<>>]
    /\ wlast = [op |-> "none", res |-> Ok(Unit)]

InitLookup ==
    /\ InitRegistry
    /\ InitNoFec
    /\ InitNoWriters

\* Lines 14-17: the key is built, the lock taken, the cache read and the lock
\* released at the end of the `if let`; a hit returns.
LookupGet(t, version, line_code) ==
    /\ pc[t] = "idle"
    /\ ncalls < MaxCalls
    /\ ncalls' = ncalls + 1
    /\ LET key == Key(version, line_code)
           hit == cache_get(CACHE, key)
       IN  IF hit # 0
           THEN /\ returned' = returned \cup {Returned(key, OkRef(hit), TRUE)}
                /\ UNCHANGED <<pc, tkey>>
           ELSE /\ returned' = returned
                /\ tkey' = [tkey EXCEPT ![t] = key]
                /\ pc' = [pc EXCEPT ![t] = "do_lookup"]
    /\ UNCHANGED <<CACHE, heap, tlocal, writes, parseVars, fecVars, writerVars>>

\* Line 18: do_lookup outside the lock; `?` returns its error.
LookupDoLookup(t) ==
    /\ pc[t] = "do_lookup"
    /\ LET r == do_lookup(tkey[t].version, tkey[t].line_code)
           l == leak(heap, r.schema)
       IN  IF r.ok
           THEN /\ heap' = l.heap
                /\ tlocal' = [tlocal EXCEPT ![t] = l.ref]
                /\ pc' = [pc EXCEPT ![t] = "insert"]
                /\ returned' = returned
                /\ tkey' = tkey
           ELSE /\ returned' = returned \cup {Returned(tkey[t], r, FALSE)}
                /\ pc' = [pc EXCEPT ![t] = "idle"]
                /\ tkey' = [tkey EXCEPT ![t] = NoKey]
                /\ UNCHANGED <<heap, tlocal>>
    /\ UNCHANGED <<CACHE, writes, ncalls, parseVars, fecVars, writerVars>>

\* Lines 19-20: the lock taken again, the entry inserted, the reference returned.
LookupInsert(t) ==
    /\ pc[t] = "insert"
    /\ CACHE' = cache_insert(CACHE, tkey[t], tlocal[t])
    /\ writes' = Append(writes, tkey[t])
    /\ returned' = returned \cup {Returned(tkey[t], OkRef(tlocal[t]), FALSE)}
    /\ pc' = [pc EXCEPT ![t] = "idle"]
    /\ tkey' = [tkey EXCEPT ![t] = NoKey]
    /\ tlocal' = [tlocal EXCEPT ![t] = 0]
    /\ UNCHANGED <<heap, ncalls, parseVars, fecVars, writerVars>>

\* A call made while no other call is in progress.
LookupGetAlone(t, version, line_code) ==
    /\ \A u \in Threads : pc[u] = "idle"
    /\ LookupGet(t, version, line_code)

(***************************************************************************)
(* The registry under concurrent callers, and under one caller at a time.  *)
(***************************************************************************)
NextLookup ==
    \/ \E t \in Threads, version \in Versions, line_code \in LineCodes :
          LookupGet(t, version, line_code)
    \/ \E t \in Threads : LookupDoLookup(t)
    \/ \E t \in Threads : LookupInsert(t)

SpecLookup == InitLookup /\ [][NextLookup]_vars

NextLookupSeq ==
    \/ \E t \in Threads, version \in Versions, line_code \in LineCodes :
          LookupGetAlone(t, version, line_code)
    \/ \E t \in Threads : LookupDoLookup(t)
    \/ \E t \in Threads : LookupInsert(t)

SpecLookupSeq == InitLookup /\ [][NextLookupSeq]_vars

(***************************************************************************)
(* Properties of the registry.                                             *)
(***************************************************************************)
\* The pairs (i, j) of the table whose two patterns match the key.
MatchingPairs(version, line_code) ==
    {p \in {<<i, j>> : i \in 1..Len(MAPPINGS), j \in 1..4} :
        /\ p[2] <= Len(MAPPINGS[p[1]].versions)
        /\ is_match(MAPPINGS[p[1]].regex, line_code)
        /\ is_match(MAPPINGS[p[1]].versions[p[2]].regex, version)}

\* Table order on pairs.
PairBefore(p, q) == p[1] < q[1] \/ (p[1] = q[1] /\ p[2] < q[2])

FirstPair(version, line_code) ==
    CHOOSE p \in MatchingPairs(version, line_code) :
        \A q \in MatchingPairs(version, line_code) : q = p \/ PairBefore(p, q)

\* The schema behind what a call returned.
SchemaOf(e) == heap[e.res.ref]

\* C5: every result of lookup_schema is built from the first pair of the
\* table, in table order, whose line-code pattern and version pattern both
\* match; the lookup fails exactly when no pair matches.  A line-code pattern
\* without a matching version does not end the scan.
C5_FirstMatchingPairWins ==
    \A e \in returned :
        LET m == MatchingPairs(e.key.version, e.key.line_code)
            p == FirstPair(e.key.version, e.key.line_code)
        IN  /\ e.res.ok <=> m # {}
            /\ e.res.ok =>
                  /\ SchemaOf(e).code = e.key.line_code
                  /\ SchemaOf(e).fields =
                        FieldSchemas(MAPPINGS[p[1]].versions[p[2]].fields)

\* C5 witness: a key resolved by a later line-code pattern (^f3) after an
\* earlier one (^f3x) matched the line code but none of its versions, and a
\* key resolved by the first of two matching version patterns.
C5_Witness ==
    /\ \E e \in returned :
          /\ e.res.ok
          /\ e.key = Key(V202, S_F3XN)
          /\ FirstPair(V202, S_F3XN) = <<3, 2>>
    /\ \E e \in returned :
          /\ e.res.ok
          /\ e.key = Key(V83, S_sa11)
          /\ Cardinality(MatchingPairs(V83, S_sa11)) = 2

\* Calls for the same key got the same reference.
SameReferencePerKey ==
    \A a, b \in returned :
        (a.key = b.key /\ a.res.ok /\ b.res.ok) => a.res.ref = b.res.ref

\* C6: with one caller at a time, every call for a key that resolves returns
\* the reference the first call for that key returned, and the schema behind
\* a returned reference is still the schema that was resolved for the key.
C6_StableReference ==
    /\ SameReferencePerKey
    /\ \A e \in returned :
          e.res.ok =>
              SchemaOf(e) = do_lookup(e.key.version, e.key.line_code).schema

\* C6 witness: a key was resolved, then served again from the cache, with a
\* lookup of another key made as well.
C6_Witness ==
    \E a, b, c \in returned :
        /\ a.key = b.key /\ a.res.ok /\ b.res.ok
        /\ ~a.hit /\ b.hit
        /\ c.key # a.key /\ c.res.ok

\* C7 (as claimed): under concurrent callers CACHE.insert is called at most
\* once per key, so no entry is replaced, and all callers for a key get the
\* same reference.
C7_WriteOncePerKey ==
    /\ \A i, j \in 1..Len(writes) : writes[i] = writes[j] => i = j
    /\ SameReferencePerKey

\* C8 (as claimed): a key that no pair matches fails with SchemaError(version,
\* line_code), and nothing is cached under the key.
C8_SchemaErrorOnMiss ==
    \A e \in returned :
        ~e.res.ok =>
            /\ e.res.err.kind = "SchemaError"
            /\ e.res.err.version = e.key.version
            /\ e.res.err.line_code = e.key.line_code
            /\ cache_get(CACHE, e.key) = 0

(***************************************************************************)
(* Values (record.rs) and the line parsers (schemas/parse.rs).             *)
(***************************************************************************)
Value(typ, val) == [typ |-> typ, val |-> val]

IsSpace(c) == c = " "

\* str::trim.
RECURSIVE trim_start(_)
trim_start(s) ==
    IF s # <<>> /\ IsSpace(Head(s)) THEN trim_start(Tail(s)) ELSE s

RECURSIVE trim_end(_)
trim_end(s) ==
    IF s # <<>> /\ IsSpace(s[Len(s)])
    THEN trim_end(SubSeq(s, 1, Len(s) - 1))
    ELSE s

trim(s) == trim_end(trim_start(s))

Digits == <<"0","1","2","3","4","5","6","7","8","9">>
IsDigit(c) == \E d \in 1..10 : Digits[d] = c
DigitValue(c) == (CHOOSE d \in 1..10 : Digits[d] = c) - 1

\* The number a string of decimal digits denotes.
RECURSIVE parse_i64(_)
parse_i64(s) ==
    IF s = <<>> THEN 0
    ELSE 10 * parse_i64(SubSeq(s, 1, Len(s) - 1)) + DigitValue(s[Len(s)])

\* ValueType::parse_to_value(raw: Option<&String>): an absent or
\* whitespace-only raw gives the absent variant of the type; otherwise the
\* raw is trimmed and parsed, and a failure is an error.
parse_to_value(typ, raw) ==
    IF ~raw.some \/ trim(raw.v) = <<>> THEN Ok(Value(typ, None))
    ELSE LET t == trim(raw.v)
         IN  IF typ = "String" THEN Ok(Value("String", Some(t)))
             ELSE IF \A i \in 1..Len(t) : IsDigit(t[i])
                  THEN Ok(Value("Integer", Some(parse_i64(t))))
                  ELSE Err("RecordParseError", "invalid digit")

\* A literal loop that takes a raw value beyond the schema as a String.
RECURSIVE LiteralLoopLenient(_, _, _, _)
LiteralLoopLenient(schema, raw, i, values) ==
    IF i > Len(raw) THEN Ok(values)
    ELSE IF i > Len(schema.fields)
         THEN LiteralLoopLenient(schema, raw, i + 1,
                                 Append(values, Value("String", Some(raw[i]))))
         ELSE LET t  == trim(raw[i])
                  rv == IF t = <<>> THEN None ELSE Some(t)
                  r  == parse_to_value(schema.fields[i].typ, rv)
              IN  IF r.kind = "ok"
                  THEN LiteralLoopLenient(schema, raw, i + 1, Append(values, r.v))
                  ELSE r

\* LiteralLineParser::parse_values, the loop from raw value i on: a raw value
\* beyond the schema is an error, a raw value that does not parse is an error.
RECURSIVE LiteralLoop(_, _, _, _)
LiteralLoop(schema, raw, i, values) ==
    IF i > Len(raw) THEN Ok(values)
    ELSE IF i > Len(schema.fields)
         THEN Err("RecordParseError", "too many values")
         ELSE LET t  == trim(raw[i])
                  rv == IF t = <<>> THEN None ELSE Some(t)
                  r  == parse_to_value(schema.fields[i].typ, rv)
              IN  IF r.kind = "ok"
                  THEN LiteralLoop(schema, raw, i + 1, Append(values, r.v))
                  ELSE r

literal_parse_values(schema, raw) == LiteralLoop(schema, raw, 1, <<>>)

\* A coercing loop that returns the error of a value that does not parse.
RECURSIVE CoercingLoopFailing(_, _, _, _)
CoercingLoopFailing(schema, line, i, values) ==
    IF i > Len(line) THEN Ok(values)
    ELSE IF i > Len(schema.fields)
         THEN CoercingLoopFailing(schema, line, i + 1,
                                  Append(values, Value("String", Some(line[i]))))
         ELSE LET r == parse_to_value(schema.fields[i].typ, Some(line[i]))
              IN  IF r.kind = "ok"
                  THEN CoercingLoopFailing(schema, line, i + 1, Append(values, r.v))
                  ELSE r

\* CoercingLineParser::parse_values, the first loop from raw value i on: a raw
\* value beyond the schema is pushed as Value::String(Some(raw)); one that
\* does not parse becomes parse_to_value(None) of its type.
RECURSIVE CoercingLoop(_, _, _, _)
CoercingLoop(schema, line, i, values) ==
    IF i > Len(line) THEN Ok(values)
    ELSE IF i > Len(schema.fields)
         THEN CoercingLoop(schema, line, i + 1,
                           Append(values, Value("String", Some(line[i]))))
         ELSE LET typ == schema.fields[i].typ
                  r   == parse_to_value(typ, Some(line[i]))
                  d   == parse_to_value(typ, None)
              IN  IF r.kind = "ok"
                  THEN CoercingLoop(schema, line, i + 1, Append(values, r.v))
                  ELSE IF d.kind = "ok"
                       THEN CoercingLoop(schema, line, i + 1, Append(values, d.v))
                       ELSE d

\* A second loop that pads with absent Strings whatever the type of the field.
RECURSIVE PadLoopStrings(_, _, _)
PadLoopStrings(schema, i, values) ==
    IF i > Len(schema.fields) THEN Ok(values)
    ELSE PadLoopStrings(schema, i + 1, Append(values, Value("String", None)))

\* The second loop: parse_to_value(None) for every schema field from i on.
RECURSIVE PadLoop(_, _, _)
PadLoop(schema, i, values) ==
    IF i > Len(schema.fields) THEN Ok(values)
    ELSE LET d == parse_to_value(schema.fields[i].typ, None)
         IN  IF d.kind = "ok" THEN PadLoop(schema, i + 1, Append(values, d.v))
             ELSE d

\* The two loops without the assertion that follows them.
coercing_parse_values_unchecked(schema, line) ==
    LET pad(seen) ==
            IF seen.kind # "ok" THEN seen
            ELSE PadLoop(schema, Len(line) + 1, seen.v)
    IN  pad(CoercingLoop(schema, line, 1, <<>>))

\* CoercingLineParser::parse_values: the two loops, then
\* assert!(values.len() == schema.fields.len()).
coercing_parse_values(schema, line) ==
    LET checked(padded) ==
            IF padded.kind # "ok" THEN padded
            ELSE IF Len(padded.v) # Len(schema.fields)
            THEN Panic("assertion failed: values.len() == schema.fields.len()")
            ELSE padded
        pad(seen) ==
            IF seen.kind # "ok" THEN seen
            ELSE checked(PadLoop(schema, Len(line) + 1, seen.v))
    IN  pad(CoercingLoop(schema, line, 1, <<>>))

parse_values(policy, schema, line) ==
    IF policy = "literal" THEN literal_parse_values(schema, line)
    ELSE coercing_parse_values(schema, line)

\* LineParser::parse_line on the cache and heap given: the first raw field is
\* the record type code, the schema is looked up (and cached), the rest of the
\* line is parsed to it.  The outcome, and the cache and heap after the call.
parse_line(policy, cache, hp, fec_version, line) ==
    LET record_type == Head(line)
        parsed(l, schema, values) ==
            IF values.kind # "ok"
            THEN [out |-> values, schema |-> Some(schema),
                  cache |-> l.cache, heap |-> l.heap]
            ELSE [out |-> Ok([record_type |-> record_type,
                              schema |-> schema,
                              values |-> values.v]),
                  schema |-> Some(schema),
                  cache |-> l.cache, heap |-> l.heap]
        found(l, schema) ==
            parsed(l, schema, parse_values(policy, schema, Tail(line)))
        looked_up(l) ==
            IF ~l.res.ok
            THEN [out |-> [kind |-> "err", err |-> l.res.err],
                  schema |-> None, cache |-> l.cache, heap |-> l.heap]
            ELSE found(l, l.heap[l.res.ref])
    IN  IF line = <<>>
        THEN [out |-> Err("RecordParseError", "No form name"), schema |-> None,
              cache |-> cache, heap |-> hp]
        ELSE looked_up(lookup_schema(cache, hp, fec_version, record_type))

(***************************************************************************)
(* The line parsers applied to one input.                                  *)
(***************************************************************************)
Policies == {"literal", "coercing"}

RawFields == {S_F3XN, S_ZZZ, <<"4","2">>, <<" ","x"," ">>, <<>>}

\* All sequences over S of length at most n.
RECURSIVE SeqsUpTo(_, _)
SeqsUpTo(S, n) ==
    IF n = 0 THEN {<<>>}
    ELSE LET shorter == SeqsUpTo(S, n - 1)
         IN  shorter \cup {Append(q, x) : q \in shorter, x \in S}

RawLines == SeqsUpTo(RawFields, MaxRawLen)

\* Schemas handed to parse_values directly; the registry itself only vends
\* String fields.
TypedSchemas == {
    [code |-> S_SA11,
     fields |-> <<[name |-> "amount", typ |-> "Integer"],
                  [name |-> "name", typ |-> "String"]>>],
    [code |-> S_SA11,
     fields |-> <<[name |-> "name", typ |-> "String"],
                  [name |-> "amount", typ |-> "Integer"],
                  [name |-> "count", typ |-> "Integer"]>>],
    [code |-> S_ZZZ, fields |-> <<>>] }

\* parse_line on one raw line.
ParseLine(policy, version, line) ==
    /\ pcall.op = "none"
    /\ LET r == parse_line(policy, CACHE, heap, version, line)
       IN  /\ pcall' = [op |-> "parse_line", policy |-> policy,
                        version |-> version, line |-> line,
                        raw |-> IF line = <<>> THEN <<>> ELSE Tail(line),
                        schema |-> r.schema,
                        out |-> IF r.out.kind = "ok"
                                THEN Ok(r.out.v.values) ELSE r.out]
           /\ CACHE' = r.cache
           /\ heap' = r.heap
    /\ UNCHANGED <<pc, tkey, tlocal, returned, writes, ncalls, fecVars, writerVars>>

\* parse_values on the raw values of one line, under a schema given.
ParseValues(policy, schema, raw) ==
    /\ pcall.op = "none"
    /\ pcall' = [op |-> "parse_values", policy |-> policy, raw |-> raw,
                 schema |-> Some(schema),
                 out |-> parse_values(policy, schema, raw)]
    /\ UNCHANGED <<lookupVars, fecVars, writerVars>>

NextParse ==
    \/ \E policy \in Policies, version \in Versions, line \in RawLines :
          ParseLine(policy, version, line)
    \/ \E policy \in Policies, schema \in TypedSchemas, raw \in RawLines :
          ParseValues(policy, schema, raw)

SpecParse == InitLookup /\ [][NextParse]_vars

\* A coercing call was made on raw values under a schema.
CoercingCall == pcall.op # "none" /\ pcall.policy = "coercing" /\ pcall.schema.some

\* C9: every record the coercing policy produces has exactly as many values
\* as its schema has fields, whatever the number of raw values.
C9_CoercingLengthInvariant ==
    (CoercingCall /\ pcall.out.kind = "ok") =>
        Len(pcall.out.v) = Len(pcall.schema.v.fields)

\* C9 witness: a line with fewer raw values than the schema has fields was
\* parsed to a record, padded with absent values.
C9_Witness ==
    /\ CoercingCall
    /\ pcall.out.kind = "ok"
    /\ Len(pcall.raw) < Len(pcall.schema.v.fields)
    /\ Len(pcall.out.v) = Len(pcall.schema.v.fields)
    /\ ~pcall.out.v[Len(pcall.out.v)].val.some

\* C10 (as claimed): a coercing call on more raw values than the schema has
\* fields succeeds, the surplus values following as String values.
C10_SurplusFieldsAsStrings ==
    (CoercingCall /\ Len(pcall.raw) > Len(pcall.schema.v.fields)) =>
        /\ pcall.out.kind = "ok"
        /\ Len(pcall.out.v) = Len(pcall.raw)
        /\ \A i \in (Len(pcall.schema.v.fields) + 1)..Len(pcall.raw) :
              pcall.out.v[i] = Value("String", Some(pcall.raw[i]))

\* The raw value does not parse under the type: it is not blank and, for an
\* Integer, holds something that is not a digit.
FailsToParse(typ, raw) ==
    /\ typ = "Integer"
    /\ \E i \in 1..Len(raw) : ~IsSpace(raw[i])
    /\ LET first  == CHOOSE i \in 1..Len(raw) : ~IsSpace(raw[i]) /\
                         \A j \in 1..(i - 1) : IsSpace(raw[j])
           last_  == CHOOSE i \in 1..Len(raw) : ~IsSpace(raw[i]) /\
                         \A j \in (i + 1)..Len(raw) : IsSpace(raw[j])
       IN  \E i \in first..last_ : ~IsDigit(raw[i])

\* The raw value is blank: empty or white space only.
IsBlank(raw) == \A i \in 1..Len(raw) : IsSpace(raw[i])

\* parse_line failed for a reason of structure: the line is empty, or no
\* schema is known for the version and the line code.
StructuralFailure ==
    \/ pcall.line = <<>> /\ pcall.out.err.message = "No form name"
    \/ /\ pcall.line # <<>>
       /\ MatchingPairs(pcall.version, Head(pcall.line)) = {}
       /\ pcall.out.err.message = "Couldn't find schema"

\* C11: under the coercing policy a value that does not parse under its
\* field's type becomes the absent value of that type and the values after it
\* are still parsed: a line with no more values than the schema has fields
\* always gives a record; parse_values never returns an error, and parse_line
\* returns one only for an empty line or a line without a schema.
C11_CoercionFailuresAbsorbed ==
    /\ CoercingCall =>
          /\ pcall.out.kind # "err"
          /\ Len(pcall.raw) <= Len(pcall.schema.v.fields) => pcall.out.kind = "ok"
          /\ pcall.out.kind = "ok" =>
                \A i \in 1..Len(pcall.raw) :
                    LET typ == pcall.schema.v.fields[i].typ
                    IN  /\ pcall.out.v[i].typ = typ
                        /\ FailsToParse(typ, pcall.raw[i]) => ~pcall.out.v[i].val.some
                        /\ (~FailsToParse(typ, pcall.raw[i]) /\ ~IsBlank(pcall.raw[i]))
                              => pcall.out.v[i].val.some
    /\ (pcall.op = "parse_line" /\ pcall.policy = "coercing" /\ pcall.out.kind = "err")
          => StructuralFailure

\* C11 witness: a value that does not parse under its Integer field became
\* absent and the value after it was parsed.
C11_Witness ==
    /\ CoercingCall /\ pcall.out.kind = "ok"
    /\ \E i \in 1..(Len(pcall.raw) - 1) :
          /\ FailsToParse(pcall.schema.v.fields[i].typ, pcall.raw[i])
          /\ ~pcall.out.v[i].val.some
          /\ pcall.out.v[i + 1].val.some

\* A literal call was made on raw values under a schema.
LiteralCall == pcall.op # "none" /\ pcall.policy = "literal" /\ pcall.schema.some

NL    == "\n"
COMMA == ","
FS    == "<0x1C>"

\* Two elements of a byte source that are not text.  IO_FAULT stands for a
\* read that fails with an I/O error at that point of the source: the bytes
\* before it were delivered, and the source goes on behind it.  BAD_UTF8 is a
\* byte that is not valid UTF-8.
IO_FAULT == "<io error>"
BAD_UTF8 == "<0xFF>"

\* Sep::to_byte.
to_byte(sep) == IF sep = "Comma" THEN COMMA ELSE FS

\* Sep::detect: Ascii28 if the slice contains 0x1C, else Comma.
detect(s) == IF \E i \in 1..Len(s) : s[i] = FS THEN "Ascii28" ELSE "Comma"

\* byte_slice_contains: some window of the haystack equals the needle.
byte_slice_contains(haystack, needle) ==
    \E i \in 1..(Len(haystack) - Len(needle) + 1) :
        SubSeq(haystack, i, i + Len(needle) - 1) = needle

\* slice::split / str::split on one separator: "a,,b" gives three parts, the
\* empty string one empty part.
RECURSIVE split(_, _)
split(s, d) ==
    IF ~\E i \in 1..Len(s) : s[i] = d THEN <<s>>
    ELSE LET i == CHOOSE i \in 1..Len(s) :
                      s[i] = d /\ \A j \in 1..(i - 1) : s[j] # d
         IN  <<SubSeq(s, 1, i - 1)>> \o split(SubSeq(s, i + 1, Len(s)), d)

\* The capacity of the BufReader the header decoder reads through.
BufCapacity == 1

Min(a, b) == IF a < b THEN a ELSE b

\* A BufReader that fills eight bytes at a time.
fill_buf_wide(bytes, pos) == Min(pos + 8, Len(bytes))

\* BufReader::fill_buf on an empty buffer: one read of at most BufCapacity
\* bytes from the source, which stands at pos.  The position the source
\* stands at after the read.
fill_buf(bytes, pos) == Min(pos + BufCapacity, Len(bytes))

\* The state of the buffered reader: pos, the position of the source under
\* it, and consumed, the position up to which the bytes read were consumed
\* (the buffer holds the bytes between the two).
BufState(pos, consumed) == [pos |-> pos, consumed |-> consumed]

\* The buffer is filled until it holds the byte at position end.
RECURSIVE fill_to(_, _, _)
fill_to(bytes, pos, end) ==
    IF end <= pos THEN pos ELSE fill_to(bytes, fill_buf(bytes, pos), end)

\* Where the read of a line that starts after position from stops: at the
\* first newline or failing read, at the end of the bytes when there is none.
line_end(bytes, from) ==
    LET stops(i) == bytes[i] = NL \/ bytes[i] = IO_FAULT
    IN  IF \E i \in (from + 1)..Len(bytes) : stops(i)
        THEN CHOOSE i \in (from + 1)..Len(bytes) :
                 stops(i) /\ \A j \in (from + 1)..(i - 1) : ~stops(j)
        ELSE Len(bytes)

\* BufRead::read_until(b'\n'): the bytes up to and including the first
\* newline, or up to the end of the source; the buffer is filled as often as
\* it takes to hold them.  A read of the source that fails ends the call
\* with the I/O error, and the bytes taken before it are lost to the caller.
read_until(bytes, st) ==
    LET upto(end) ==
            [line |-> SubSeq(bytes, st.consumed + 1, end),
             failed |-> end > st.consumed /\ bytes[end] = IO_FAULT,
             st |-> BufState(fill_to(bytes, st.pos, end), end)]
    IN  upto(line_end(bytes, st.consumed))

\* ByteLinesIter::next: None at the end of the source, the I/O error of a
\* failed read, else the next line without its newline.
lines_next(bytes, st) ==
    LET item(r) ==
            IF r.failed THEN [line |-> None, failed |-> TRUE, st |-> r.st]
            ELSE IF r.line = <<>>
            THEN [line |-> None, failed |-> FALSE, st |-> r.st]
            ELSE IF r.line[Len(r.line)] = NL
            THEN [line |-> Some(SubSeq(r.line, 1, Len(r.line) - 1)),
                  failed |-> FALSE, st |-> r.st]
            ELSE [line |-> Some(r.line), failed |-> FALSE, st |-> r.st]
    IN  item(read_until(bytes, st))

\* header.rs next_line: the next line, appended to read_bytes (after a
\* newline when read_bytes is not empty), or an error at the end of the file;
\* the I/O error of a failed read is dropped for the message "error reading
\* line".
header_next_line(bytes, st, read_bytes) ==
    LET pushed(n) ==
            IF n.failed
            THEN [ok |-> FALSE, message |-> "error reading line",
                  st |-> n.st, read |-> read_bytes]
            ELSE IF ~n.line.some
            THEN [ok |-> FALSE, message |-> "unexpected end of file",
                  st |-> n.st, read |-> read_bytes]
            ELSE [ok |-> TRUE, line |-> n.line.v, st |-> n.st,
                  read |-> (IF Len(read_bytes) > 0 THEN Append(read_bytes, NL)
                            ELSE read_bytes) \o n.line.v]
    IN  pushed(lines_next(bytes, st))

Header(fec_version, software_name, software_version, report_id, report_number) ==
    [fec_version |-> fec_version, software_name |-> software_name,
     software_version |-> software_version, report_id |-> report_id,
     report_number |-> report_number]

\* Header::default().
DefaultHeader == Header(<<>>, <<>>, None, None, None)

SLASH_STAR      == <<"/","*">>
SCHEDULE_COUNTS == <<"s","c","h","e","d","u","l","e","_","c","o","u","n","t","s">>
K_FEC_VER       == <<"f","e","c","_","v","e","r","_","#">>
K_SOFT_NAME     == <<"s","o","f","t","_","n","a","m","e">>
K_SOFT_VER      == <<"s","o","f","t","_","v","e","r","#">>

\* The ceiling on the lines of a legacy header.
max_lines == 100

\* parse_legacy_kv: exactly one '=', key and value trimmed.
parse_legacy_kv(line) ==
    LET kv(parts) ==
            IF Len(parts) # 2
            THEN [ok |-> FALSE, message |-> "more than one '=' in header k=v line"]
            ELSE [ok |-> TRUE, key |-> trim(parts[1]), value |-> trim(parts[2])]
    IN  kv(split(line, "="))

\* A match on the key as it is written.
set_legacy_field_exact(header, key, value) ==
    IF key = K_FEC_VER THEN [header EXCEPT !.fec_version = value]
    ELSE IF key = K_SOFT_NAME THEN [header EXCEPT !.software_name = value]
    ELSE IF key = K_SOFT_VER
         THEN [header EXCEPT !.software_version = Some(value)]
         ELSE header

\* The match on the lower-cased key.
set_legacy_field(header, key, value) ==
    LET k == to_lowercase(key)
    IN  IF k = K_FEC_VER THEN [header EXCEPT !.fec_version = value]
        ELSE IF k = K_SOFT_NAME THEN [header EXCEPT !.software_name = value]
        ELSE IF k = K_SOFT_VER
             THEN [header EXCEPT !.software_version = Some(value)]
             ELSE header

\* The checks after the loop of parse_legacy_header.
finish_legacy_header(header) ==
    IF header.fec_version = <<>>
    THEN [ok |-> FALSE, message |-> "missing FEC_Ver_#"]
    ELSE IF header.software_name = <<>>
    THEN [ok |-> FALSE, message |-> "missing Soft_Name"]
    ELSE IF ~header.software_version.some
    THEN [ok |-> FALSE, message |-> "missing Soft_Ver#"]
    ELSE [ok |-> TRUE, header |-> header, sep |-> "Comma"]

\* A loop that reads on, however many lines the header has.
RECURSIVE legacy_loop_unbounded(_, _, _, _, _)
legacy_loop_unbounded(bytes, st, read_bytes, header, num_lines) ==
    LET assigned(n, kv) ==
            IF ~kv.ok
            THEN [ok |-> FALSE, message |-> kv.message, st |-> n.st, read |-> n.read]
            ELSE legacy_loop_unbounded(bytes, n.st, n.read,
                                       set_legacy_field(header, kv.key, kv.value),
                                       num_lines + 1)
        body(n) ==
            IF ~n.ok
            THEN [ok |-> FALSE, message |-> n.message, st |-> n.st, read |-> n.read]
            ELSE IF byte_slice_contains(n.line, SLASH_STAR)
            THEN finish_legacy_header(header) @@ [st |-> n.st, read |-> n.read]
            ELSE IF byte_slice_contains(to_lowercase(n.line), SCHEDULE_COUNTS)
            THEN legacy_loop_unbounded(bytes, n.st, n.read, header, num_lines + 1)
            ELSE assigned(n, parse_legacy_kv(n.line))
    IN  body(header_next_line(bytes, st, read_bytes))

\* The loop of parse_legacy_header: lines are read until one contains "/*".
RECURSIVE legacy_loop(_, _, _, _, _)
legacy_loop(bytes, st, read_bytes, header, num_lines) ==
    LET assigned(n, kv) ==
            IF ~kv.ok
            THEN [ok |-> FALSE, message |-> kv.message, st |-> n.st, read |-> n.read]
            ELSE legacy_loop(bytes, n.st, n.read,
                             set_legacy_field(header, kv.key, kv.value),
                             num_lines + 1)
        body(n) ==
            IF ~n.ok
            THEN [ok |-> FALSE, message |-> n.message, st |-> n.st, read |-> n.read]
            ELSE IF byte_slice_contains(n.line, SLASH_STAR)
            THEN finish_legacy_header(header) @@ [st |-> n.st, read |-> n.read]
            ELSE IF num_lines + 1 > max_lines
            THEN [ok |-> FALSE, message |-> "more than 100 lines in header",
                  st |-> n.st, read |-> n.read]
            ELSE IF byte_slice_contains(to_lowercase(n.line), SCHEDULE_COUNTS)
            THEN legacy_loop(bytes, n.st, n.read, header, num_lines + 1)
            ELSE assigned(n, parse_legacy_kv(n.line))
    IN  body(header_next_line(bytes, st, read_bytes))

parse_legacy_header(bytes, st, read_bytes) ==
    legacy_loop(bytes, st, read_bytes, DefaultHeader, 0)

(***************************************************************************)
(* Records (record.rs) and the modern header.                              *)
(***************************************************************************)
\* A get_value that takes the last schema field of the name.
get_value_last(record, field_name) ==
    LET fields == record.schema.fields
        named  == {i \in 1..Len(fields) : fields[i].name = field_name}
        index  == CHOOSE i \in named : \A j \in named : j <= i
    IN  IF named = {} THEN None
        ELSE IF index > Len(record.values) THEN None
        ELSE Some(record.values[index])

\* Record::get_value: the value at the position of the first schema field of
\* that name; None when there is no such field or no value at the position.
get_value(record, field_name) ==
    LET fields == record.schema.fields
        named  == {i \in 1..Len(fields) : fields[i].name = field_name}
        index  == CHOOSE i \in named : \A j \in named : i <= j
    IN  IF named = {} THEN None
        ELSE IF index > Len(record.values) THEN None
        ELSE Some(record.values[index])

\* The decimal digits of a natural number.
RECURSIVE i64_to_string(_)
i64_to_string(n) ==
    IF n < 10 THEN <<Digits[n + 1]>>
    ELSE Append(i64_to_string(n \div 10), Digits[(n % 10) + 1])

\* Display for Value: an absent value prints the empty string.
value_to_string(value) ==
    IF ~value.val.some THEN <<>>
    ELSE IF value.typ = "Integer" THEN i64_to_string(value.val.v)
    ELSE value.val.v

\* record.rs parse_raw_field_val: the raw string under the type of the schema
\* field, or as a String when the schema has no field left.
parse_raw_field_val(raw, field_schema) ==
    LET typ == IF field_schema.some THEN field_schema.v.typ ELSE "String"
    IN  IF typ = "String" THEN Ok(Value("String", Some(raw)))
        ELSE IF raw # <<>> /\ \A i \in 1..Len(raw) : IsDigit(raw[i])
        THEN Ok(Value("Integer", Some(parse_i64(raw))))
        ELSE [kind |-> "err", message |-> "invalid digit found in string"]

\* The loop of record.rs parse over the raw values after the line code.
RECURSIVE record_parse_loop(_, _, _, _)
record_parse_loop(schema, raw, i, fields) ==
    IF i > Len(raw) THEN Ok(fields)
    ELSE LET r == parse_raw_field_val(raw[i],
                      IF i - 1 <= Len(schema.fields)
                      THEN Some(schema.fields[i - 1]) ELSE None)
         IN  IF r.kind = "ok"
             THEN record_parse_loop(schema, raw, i + 1, Append(fields, r.v))
             ELSE r

\* record.rs parse: the line code is the first value of the record, the raw
\* values after it are parsed to the schema fields in order.
record_parse(cache, hp, fec_version, raw) ==
    LET line_code == Head(raw)
        collected(l, form_schema, fields) ==
            IF fields.kind # "ok"
            THEN [ok |-> FALSE, message |-> fields.message,
                  cache |-> l.cache, heap |-> l.heap]
            ELSE [ok |-> TRUE,
                  record |-> [schema |-> form_schema, values |-> fields.v],
                  cache |-> l.cache, heap |-> l.heap]
        found(l, form_schema, first) ==
            collected(l, form_schema,
                      record_parse_loop(form_schema, raw, 2, <<first.v>>))
        looked_up(l) ==
            IF ~l.res.ok
            THEN [ok |-> FALSE, message |-> l.res.err.message,
                  cache |-> l.cache, heap |-> l.heap]
            ELSE found(l, l.heap[l.res.ref], parse_raw_field_val(line_code, None))
    IN  IF raw = <<>>
        THEN [ok |-> FALSE, message |-> "No form name", cache |-> cache, heap |-> hp]
        ELSE looked_up(lookup_schema(cache, hp, fec_version, line_code))

\* Option<&Value>.map(|s| s.to_string()).
map_to_string(opt) == IF opt.some THEN Some(value_to_string(opt.v)) ELSE None

\* parse_nonlegacy_header: the separator is detected on the line, the version
\* is the third part after "FEC" and the second otherwise, the other fields
\* are found by name in the record parsed from the parts.
parse_nonlegacy_header(cache, hp, line) ==
    LET sep == detect(line)
        same == [cache |-> cache, heap |-> hp]
        named(version, r, soft_name) ==
            IF ~soft_name.some
            THEN [ok |-> FALSE, message |-> "missing soft_name",
                  cache |-> r.cache, heap |-> r.heap]
            ELSE [ok |-> TRUE,
                  header |-> Header(version,
                                    value_to_string(soft_name.v),
                                    map_to_string(get_value(r.record, "soft_ver")),
                                    map_to_string(get_value(r.record, "report_id")),
                                    map_to_string(get_value(r.record, "report_number"))),
                  sep |-> sep, cache |-> r.cache, heap |-> r.heap]
        parsed(version, r) ==
            IF ~r.ok
            THEN [ok |-> FALSE, message |-> r.message,
                  cache |-> r.cache, heap |-> r.heap]
            ELSE named(version, r, get_value(r.record, "soft_name"))
        versioned(parts, version) ==
            parsed(version, record_parse(cache, hp, version, parts))
        divided(parts) ==
            IF Len(parts) < 2
            THEN [ok |-> FALSE, message |-> "less than 2 parts in header"] @@ same
            ELSE IF parts[2] = S_FEC /\ Len(parts) < 3
            THEN [ok |-> FALSE, message |-> "less than 3 parts in header"] @@ same
            ELSE versioned(parts, IF parts[2] = S_FEC THEN parts[3] ELSE parts[2])
    IN  divided(split(line, to_byte(sep)))

HeaderParseError(message, read) ==
    [kind |-> "HeaderParseError", message |-> message, read |-> read]

\* header.rs parse_header on the source standing at pos: the first line picks
\* the dialect.  The outcome, the position of the source when the BufReader is
\* dropped, and the cache and heap after the call.
parse_header(bytes, pos, cache, hp) ==
    LET failed(message, read) ==
            [kind |-> "err", err |-> HeaderParseError(message, read)]
        of_legacy(legacy) ==
            [res |-> IF legacy.ok
                     THEN Ok([header |-> legacy.header, sep |-> legacy.sep])
                     ELSE failed(legacy.message, legacy.read),
             pos |-> legacy.st.pos, cache |-> cache, heap |-> hp]
        of_modern(first, modern) ==
            [res |-> IF modern.ok
                     THEN Ok([header |-> modern.header, sep |-> modern.sep])
                     ELSE failed(modern.message, first.read),
             pos |-> first.st.pos, cache |-> modern.cache, heap |-> modern.heap]
        dialect(first) ==
            IF ~first.ok
            THEN [res |-> failed(first.message, first.read),
                  pos |-> first.st.pos, cache |-> cache, heap |-> hp]
            ELSE IF byte_slice_contains(first.line, SLASH_STAR)
            THEN of_legacy(parse_legacy_header(bytes, first.st, first.read))
            ELSE of_modern(first, parse_nonlegacy_header(cache, hp, first.line))
    IN  dialect(header_next_line(bytes, BufState(pos, pos), <<>>))

(***************************************************************************)
(* The cover (cover.rs) and the delimited reader (csv.rs).                 *)
(***************************************************************************)
CoverParseError(message) == [kind |-> "CoverParseError", message |-> message]

\* A parse_cover_line that leaves filer_committee_id empty when the record
\* has no value under filer_committee_id_number.
parse_cover_line_defaulting(cache, hp, fec_version, line) ==
    LET covered(r, id) ==
            [res |-> Ok([form_type |-> r.out.v.record_type,
                         filer_committee_id |->
                             IF id.some THEN value_to_string(id.v) ELSE <<>>]),
             cache |-> r.cache, heap |-> r.heap]
        parsed(r) ==
            IF r.out.kind # "ok"
            THEN [res |-> r.out, cache |-> r.cache, heap |-> r.heap]
            ELSE covered(r, get_value(r.out.v, "filer_committee_id_number"))
    IN  parsed(parse_line("literal", cache, hp, fec_version, line))

\* parse_cover_line: the line is parsed with the literal policy; form_type is
\* the record's line code, filer_committee_id the value of the field
\* filer_committee_id_number.
parse_cover_line(cache, hp, fec_version, line) ==
    LET covered(r, id) ==
            IF ~id.some
            THEN [res |-> [kind |-> "err",
                           err |-> CoverParseError("no 'filer_committee_id_number' in cover line")],
                  cache |-> r.cache, heap |-> r.heap]
            ELSE [res |-> Ok([form_type |-> r.out.v.record_type,
                              filer_committee_id |-> value_to_string(id.v)]),
                  cache |-> r.cache, heap |-> r.heap]
        parsed(r) ==
            IF r.out.kind # "ok"
            THEN [res |-> r.out, cache |-> r.cache, heap |-> r.heap]
            ELSE covered(r, get_value(r.out.v, "filer_committee_id_number"))
    IN  parsed(parse_line("literal", cache, hp, fec_version, line))

\* CsvReader::new(reader, sep): the reader owns the stream from the position
\* the byte source stands at.
CsvReader(pos, sep) ==
    [start |-> pos, pos |-> pos, delimiter |-> to_byte(sep), eof |-> FALSE]

IO_ERROR_MESSAGE   == "I/O error"
UTF8_ERROR_MESSAGE == "invalid utf-8 sequence"

\* CsvReader::next_line: None at the end of the stream, else the fields of
\* the next line, split on the delimiter.  A read of the stream that fails
\* gives the error's text as the item, and the record reader under it takes
\* the stream as ended from then on; a field that is not UTF-8 gives the
\* error's text as the item for that line.
csv_next_line(bytes, csv) ==
    LET text(end) ==
            SubSeq(bytes, csv.pos + 1, IF bytes[end] = NL THEN end - 1 ELSE end)
        line(end) ==
            IF bytes[end] = IO_FAULT
            THEN [item |-> None, err |-> Some(IO_ERROR_MESSAGE),
                  csv |-> [csv EXCEPT !.pos = end, !.eof = TRUE]]
            ELSE IF \E i \in (csv.pos + 1)..end : bytes[i] = BAD_UTF8
            THEN [item |-> None, err |-> Some(UTF8_ERROR_MESSAGE),
                  csv |-> [csv EXCEPT !.pos = end]]
            ELSE [item |-> Some(split(text(end), csv.delimiter)), err |-> None,
                  csv |-> [csv EXCEPT !.pos = end]]
    IN  IF csv.eof \/ csv.pos >= Len(bytes)
        THEN [item |-> None, err |-> None, csv |-> csv]
        ELSE line(line_end(bytes, csv.pos))

(***************************************************************************)
(* FecFile (fec.rs).  The operations are functions of w, the FecFile with   *)
(* the registry it reads and writes and the history kept of it.            *)
(***************************************************************************)
World == [fec |-> fec, cache |-> CACHE, heap |-> heap,
          hspan |-> hspan, nheader |-> nheader, ncover |-> ncover]

\* FecFile::from_reader.
from_reader == [reader |-> Some(0), header |-> None, cover |-> None,
                sep |-> None, csv_reader |-> None]

\* A parse_header without the early return on a header already parsed.
fec_parse_header_unguarded(w) ==
    LET decoded(r, moved) ==
            IF r.res.kind # "ok" THEN [w |-> moved, res |-> r.res]
            ELSE [w |-> [moved EXCEPT !.fec.header = Some(r.res.v.header),
                                      !.fec.sep = Some(r.res.v.sep),
                                      !.hspan = Some([from |-> w.fec.reader.v,
                                                      to |-> r.pos]),
                                      !.nheader = @ + 1],
                  res |-> Ok(Unit)]
        read(r) ==
            decoded(r, [w EXCEPT !.fec.reader = Some(r.pos),
                                 !.cache = r.cache, !.heap = r.heap])
    IN  IF ~w.fec.reader.some THEN [w |-> w, res |-> Panic("no reader")]
        ELSE read(parse_header(input, w.fec.reader.v, w.cache, w.heap))

\* FecFile::parse_header: nothing to do when the header is set; else the
\* header is decoded from the reader and, on success, header and sep are set.
fec_parse_header(w) ==
    IF w.fec.header.some THEN [w |-> w, res |-> Ok(Unit)]
    ELSE fec_parse_header_unguarded(w)

\* A make_csv_parser that gives the reader the comma whatever the header
\* said.
make_csv_parser_comma(w) ==
    LET attach(h) ==
            IF h.res.kind # "ok" THEN h
            ELSE IF ~h.w.fec.sep.some THEN [w |-> h.w, res |-> Panic("No sep")]
            ELSE IF ~h.w.fec.reader.some THEN [w |-> h.w, res |-> Panic("no reader")]
            ELSE [w |-> [h.w EXCEPT
                            !.fec.csv_reader =
                                Some(CsvReader(h.w.fec.reader.v, "Comma")),
                            !.fec.reader = None],
                  res |-> Ok(Unit)]
    IN  IF w.fec.csv_reader.some THEN [w |-> w, res |-> Ok(Unit)]
        ELSE attach(fec_parse_header(w))

\* A make_csv_parser that builds the reader and leaves the byte source in
\* the FecFile as well.
make_csv_parser_sharing(w) ==
    LET attach(h) ==
            IF h.res.kind # "ok" THEN h
            ELSE IF ~h.w.fec.sep.some THEN [w |-> h.w, res |-> Panic("No sep")]
            ELSE IF ~h.w.fec.reader.some THEN [w |-> h.w, res |-> Panic("no reader")]
            ELSE [w |-> [h.w EXCEPT
                            !.fec.csv_reader =
                                Some(CsvReader(h.w.fec.reader.v, h.w.fec.sep.v))],
                  res |-> Ok(Unit)]
    IN  IF w.fec.csv_reader.some THEN [w |-> w, res |-> Ok(Unit)]
        ELSE attach(fec_parse_header(w))

\* FecFile::make_csv_parser: nothing to do when the reader is attached; else
\* the header is parsed and the byte source moved into a new CsvReader.
make_csv_parser(w) ==
    LET attach(h) ==
            IF h.res.kind # "ok" THEN h
            ELSE IF ~h.w.fec.sep.some THEN [w |-> h.w, res |-> Panic("No sep")]
            ELSE IF ~h.w.fec.reader.some THEN [w |-> h.w, res |-> Panic("no reader")]
            ELSE [w |-> [h.w EXCEPT
                            !.fec.csv_reader =
                                Some(CsvReader(h.w.fec.reader.v, h.w.fec.sep.v)),
                            !.fec.reader = None],
                  res |-> Ok(Unit)]
    IN  IF w.fec.csv_reader.some THEN [w |-> w, res |-> Ok(Unit)]
        ELSE attach(fec_parse_header(w))

\* A parse_cover without the early return on a cover already parsed.
fec_parse_cover_unguarded(w) ==
    LET covered(read, c, parsed) ==
            IF c.res.kind # "ok" THEN [w |-> parsed, res |-> c.res]
            ELSE [w |-> [parsed EXCEPT !.fec.cover = Some(c.res.v),
                                       !.ncover = @ + 1],
                  res |-> Ok(Unit)]
        parse(read, c) ==
            covered(read, c, [read EXCEPT !.cache = c.cache, !.heap = c.heap])
        taken(n, read) ==
            IF n.err.some
            THEN [w |-> read,
                  res |-> [kind |-> "err", err |-> CoverParseError(n.err.v)]]
            ELSE IF ~n.item.some
            THEN [w |-> read,
                  res |-> [kind |-> "err", err |-> CoverParseError("no cover record")]]
            ELSE parse(read, parse_cover_line(read.cache, read.heap,
                                              read.fec.header.v.fec_version,
                                              n.item.v))
        next(m, n) == taken(n, [m.w EXCEPT !.fec.csv_reader = Some(n.csv)])
        made(m) ==
            IF m.res.kind # "ok" THEN m
            ELSE next(m, csv_next_line(input, m.w.fec.csv_reader.v))
    IN  made(make_csv_parser(w))

\* FecFile::parse_cover: nothing to do when the cover is set; else the reader
\* is attached, one line is taken from it and parsed as the cover.
fec_parse_cover(w) ==
    IF w.fec.cover.some THEN [w |-> w, res |-> Ok(Unit)]
    ELSE fec_parse_cover_unguarded(w)

\* FecFile::get_header.
get_header(w) ==
    LET got(h) ==
            IF h.res.kind # "ok" THEN h
            ELSE [w |-> h.w, res |-> Ok(h.w.fec.header.v)]
    IN  got(fec_parse_header(w))

\* FecFile::get_cover.
get_cover(w) ==
    LET got(c) ==
            IF c.res.kind # "ok" THEN c
            ELSE [w |-> c.w, res |-> Ok(c.w.fec.cover.v)]
    IN  got(fec_parse_cover(w))

\* The line the reader gives, the reader starting over when it reaches the
\* end of the input.
take_line_restarting(c) ==
    LET taken(n) ==
            IF n.err.some
            THEN [w |-> [c.w EXCEPT !.fec.csv_reader = Some(n.csv)],
                  res |-> Err("RecordParseError", n.err.v)]
            ELSE IF ~n.item.some
            THEN [w |-> [c.w EXCEPT !.fec.csv_reader =
                            Some([n.csv EXCEPT !.pos = n.csv.start])],
                  res |-> [kind |-> "none"]]
            ELSE [w |-> [c.w EXCEPT !.fec.csv_reader = Some(n.csv)],
                  res |-> Ok(n.item.v)]
    IN  IF ~c.w.fec.csv_reader.some THEN [w |-> c.w, res |-> Panic("No row parser")]
        ELSE taken(csv_next_line(input, c.w.fec.csv_reader.v))

\* The line the reader gives, whatever came of the cover.
take_line(c) ==
    LET taken(n) ==
            IF n.err.some
            THEN [w |-> [c.w EXCEPT !.fec.csv_reader = Some(n.csv)],
                  res |-> Err("RecordParseError", n.err.v)]
            ELSE IF ~n.item.some
            THEN [w |-> [c.w EXCEPT !.fec.csv_reader = Some(n.csv)],
                  res |-> [kind |-> "none"]]
            ELSE [w |-> [c.w EXCEPT !.fec.csv_reader = Some(n.csv)],
                  res |-> Ok(n.item.v)]
    IN  IF ~c.w.fec.csv_reader.some THEN [w |-> c.w, res |-> Panic("No row parser")]
        ELSE taken(csv_next_line(input, c.w.fec.csv_reader.v))

\* A next_line that goes on to the reader when parse_cover failed.
next_line_ignoring_cover_error(w) == take_line(fec_parse_cover(w))

\* FecFile::next_line: the cover is parsed first and its error returned; then
\* one line is taken from the reader, None at the end of the input.
next_line(w) ==
    LET line(c) == IF c.res.kind # "ok" THEN c ELSE take_line(c)
    IN  line(fec_parse_cover(w))

\* The outcome of a call that the history keeps: a header error, an error of
\* get_cover or next_line that is not a header error (it arose while the
\* cover line was obtained or parsed), the end of the input.
Outcome(op, res) ==
    IF res.kind = "err" /\ res.err.kind = "HeaderParseError"
    THEN {"header_error"}
    ELSE IF res.kind = "err" /\ op \in {"get_cover", "next_line"}
    THEN {"cover_error"}
    ELSE IF res.kind = "none" /\ op = "next_line" THEN {"end"}
    ELSE {}

\* The call made and what it did to the FecFile, the registry and the history.
Called(op, r) ==
    LET done(w, res) ==
            /\ fec' = w.fec
            /\ CACHE' = w.cache
            /\ heap' = w.heap
            /\ hspan' = w.hspan
            /\ nheader' = w.nheader
            /\ ncover' = w.ncover
            /\ last' = [op |-> op, res |-> res]
            /\ emitted' = IF op = "next_line" /\ res.kind = "ok"
                          THEN Append(emitted, res.v) ELSE emitted
            /\ outcomes' = outcomes \cup Outcome(op, res)
    IN  done(r.w, r.res)

\* What a call on the FecFile leaves alone.
fecFrame == <<input, filing, pc, tkey, tlocal, returned, writes, ncalls, parseVars,
             writerVars>>

GetHeader ==
    /\ Called("get_header", get_header(World))
    /\ UNCHANGED fecFrame

GetCover ==
    /\ Called("get_cover", get_cover(World))
    /\ UNCHANGED fecFrame

NextLine ==
    /\ Called("next_line", next_line(World))
    /\ UNCHANGED fecFrame

(***************************************************************************)
(* The filings the FecFile is run on.                                      *)
(***************************************************************************)
\* The fields joined by the delimiter d.
RECURSIVE Join(_, _)
Join(fields, d) ==
    IF fields = <<>> THEN <<>>
    ELSE IF Len(fields) = 1 THEN fields[1]
    ELSE fields[1] \o <<d>> \o Join(Tail(fields), d)

RECURSIVE Concat(_)
Concat(seqs) == IF seqs = <<>> THEN <<>> ELSE Head(seqs) \o Concat(Tail(seqs))

S_NGP8 == <<"N","G","P","8">>
S_C1   == <<"C","1">>
S_T1   == <<"T","1">>

\* The header lines of HDR,FEC,8.3,NGP8,8 in the two delimiters, a header
\* without the FEC part, a header that is too short, and a legacy header.
ModernHeader(d) == Join(<<S_HDR, S_FEC, V83, S_NGP8, <<"8">>>>, d) \o <<NL>>
PlainHeader     == Join(<<S_HDR, V83, S_NGP8>>, COMMA) \o <<NL>>
ShortHeader     == S_HDR \o <<NL>>
LegacyHeader ==
    Concat(<< <<"/","*"," ","H","e","a","d","e","r",NL>>,
              <<"F","E","C","_","V","e","r","_","#"," ","="," ">>, V202, <<NL>>,
              <<"S","o","f","t","_","N","a","m","e"," ","="," ","F","E","C",NL>>,
              <<"S","o","f","t","_","V","e","r","#"," ","="," ","3",NL>>,
              <<"S","c","h","e","d","u","l","e","_","C","o","u","n","t","s",":",NL>>,
              <<"/","*"," ","E","n","d",NL>> >>)

Headers == {
    [bytes |-> ModernHeader(COMMA), d |-> COMMA],
    [bytes |-> ModernHeader(FS), d |-> FS],
    [bytes |-> PlainHeader, d |-> COMMA],
    [bytes |-> ShortHeader, d |-> COMMA],
    [bytes |-> LegacyHeader, d |-> COMMA] }

\* Lines after the header: a cover line of a schema known under both
\* versions, an itemization known under 8.3 only, a line of no schema, and a
\* line with a line code and nothing else.
BodyLines == { <<S_F3XN, S_C1>>, <<S_SA11, S_C1, S_T1>>, <<S_ZZZ, <<"x">>>>,
               <<S_F3XN>> }

Bodies == SeqsUpTo(BodyLines, MaxBodyLines)

\* A line with a byte that is not UTF-8 in its second field, and a line the
\* read of which fails after its first two bytes.
BadUtf8Line == <<S_SA11, <<BAD_UTF8>>, S_T1>>
FaultLine   == << <<"S", "A", IO_FAULT>>, S_C1 >>

\* Filings that hold one of the two, as the first line after the header or as
\* a later line.
FaultyBodies == {
    << <<S_F3XN, S_C1>>, BadUtf8Line, <<S_SA11, S_C1, S_T1>> >>,
    << <<S_F3XN, S_C1>>, FaultLine, <<S_SA11, S_C1, S_T1>> >>,
    << BadUtf8Line, <<S_F3XN, S_C1>>, <<S_SA11, S_C1, S_T1>> >>,
    << FaultLine, <<S_F3XN, S_C1>>, <<S_SA11, S_C1, S_T1>> >> }

\* A filing whose first line after the header is of a schema without the
\* field filer_committee_id_number.
UncoveredBodies == { << <<S_HDR, S_C1>>, <<S_F3XN, S_C1>> >> }

\* The bytes of a filing: the header, then every line with its newline.
FileBytes(h, body) ==
    h.bytes \o Concat([i \in 1..Len(body) |-> Join(body[i], h.d) \o <<NL>>])

\* A filing whose last line has no newline, the empty file, a filing with a
\* line that is no header before its header line, and a filing the read of
\* which fails in the header line, and two filings with a line that holds the
\* delimiter the header does not use.
ExtraFiles == { SubSeq(ModernHeader(COMMA), 1, Len(ModernHeader(COMMA)) - 1),
                ModernHeader(COMMA) \o Join(<<S_F3XN, S_C1>>, COMMA),
                <<>>,
                ShortHeader \o ModernHeader(COMMA)
                    \o Join(<<S_F3XN, S_C1>>, COMMA) \o <<NL>>
                    \o Join(<<S_SA11, S_C1, S_T1>>, COMMA) \o <<NL>>,
                <<"H", "D", IO_FAULT>> \o ModernHeader(COMMA)
                    \o Join(<<S_F3XN, S_C1>>, COMMA) \o <<NL>>
                    \o Join(<<S_SA11, S_C1, S_T1>>, COMMA) \o <<NL>>,
                ModernHeader(COMMA)
                    \o Join(<<S_F3XN, S_C1>>, COMMA) \o <<NL>>
                    \o Join(<<S_SA11, <<"C", FS, "1">>, S_T1>>, COMMA) \o <<NL>>,
                ModernHeader(FS)
                    \o Join(<<S_F3XN, S_C1>>, FS) \o <<NL>>
                    \o Join(<<S_SA11, <<"C", COMMA, "1">>, S_T1>>, FS) \o <<NL>> }

\* The filing is written from a header and lines, or is one of ExtraFiles.
InitFec ==
    /\ InitRegistry
    /\ \/ \E h \in Headers, body \in Bodies \cup FaultyBodies \cup UncoveredBodies :
              /\ filing = Some([h |-> h, body |-> body])
              /\ input = FileBytes(h, body)
       \/ filing = None /\ input \in ExtraFiles
    /\ fec = from_reader
    /\ InitNoWriters

NextFec == GetHeader \/ GetCover \/ NextLine

Spec == InitFec /\ [][NextFec]_vars

(***************************************************************************)
(* Properties of the FecFile.                                              *)
(***************************************************************************)
\* next_line returned a line / the end of the input.
LineReturned == last.op = "next_line" /\ last.res.kind = "ok"
Exhausted    == last.op = "next_line" /\ last.res.kind = "none"

\* C1: next_line returns a line only when the header and the cover are both
\* set; no line was ever returned by a FecFile whose header or cover is unset.
C1_LinesOnlyAfterHeaderAndCover ==
    (LineReturned \/ emitted # <<>>) => (fec.header.some /\ fec.cover.some)

\* C1 witness: next_line returned a line of the filing.
C1_Witness ==
    /\ LineReturned
    /\ fec.header.some /\ fec.cover.some
    /\ emitted # <<>> /\ last.res.v = emitted[Len(emitted)]

\* The headers that decode.
GoodHeaders == Headers \ {[bytes |-> ShortHeader, d |-> COMMA]}

\* The version a header declares.
VersionOf(h) == IF h.bytes = LegacyHeader THEN V202 ELSE V83

\* A line that decodes as a cover under the version: its form has a schema
\* and it carries the committee id.
IsCoverLine(version, line) ==
    parse_cover_line({}, <<>>, version, line).res.kind = "ok"

\* A line that is read without an error: every byte of it is text.
IsText(line) ==
    \A i \in 1..Len(line) : \A j \in 1..Len(line[i]) :
        line[i][j] \notin {IO_FAULT, BAD_UTF8}

\* A valid filing: a header that decodes, then whole lines of text, the first
\* of them a cover line.
ValidFiling ==
    /\ filing.some
    /\ filing.v.h \in GoodHeaders
    /\ filing.v.body # <<>>
    /\ \A i \in 1..Len(filing.v.body) : IsText(filing.v.body[i])
    /\ IsCoverLine(VersionOf(filing.v.h), filing.v.body[1])

\* The lines after the header the filing was written from.
NonHeaderLines == filing.v.body

IsPrefix(s, t) == Len(s) <= Len(t) /\ SubSeq(t, 1, Len(s)) = s

\* C2 (as claimed): when next_line has returned None on a valid filing, one
\* header and at most one cover were parsed and the lines returned are the
\* non-header lines of the filing, in count and in order.
C2_RecordsAreNonHeaderLines ==
    (ValidFiling /\ Exhausted) =>
        /\ nheader = 1
        /\ ncover <= 1
        /\ emitted = NonHeaderLines

\* C2 (amended): the first non-header line is consumed as the cover and is
\* not returned; the lines returned are the non-header lines after it, in
\* order at every moment and all of them once next_line has returned None.
C2_RecordsAreLinesAfterCover ==
    ValidFiling =>
        /\ nheader <= 1 /\ ncover <= 1
        /\ emitted # <<>> => IsPrefix(emitted, Tail(NonHeaderLines))
        /\ Exhausted =>
              /\ nheader = 1 /\ ncover = 1
              /\ fec.cover.v.form_type = NonHeaderLines[1][1]
              /\ emitted = Tail(NonHeaderLines)

\* C2 witness: a valid filing of three non-header lines driven to the end.
C2_Witness ==
    /\ ValidFiling /\ Exhausted
    /\ Len(NonHeaderLines) = 3
    /\ Len(emitted) = 2
    /\ emitted[1] # emitted[2]

\* C3: a getter that succeeded returned what the FecFile holds; header and
\* cover, once set, never change; a getter called when its value is set
\* returns that value and leaves the FecFile, with its reader, as it was; the
\* header is parsed at most once and at most one line becomes the cover.
C3_GettersIdempotent ==
    /\ []((last.op = "get_header" /\ last.res.kind = "ok") =>
             (fec.header.some /\ last.res.v = fec.header.v))
    /\ []((last.op = "get_cover" /\ last.res.kind = "ok") =>
             (fec.cover.some /\ last.res.v = fec.cover.v))
    /\ [][/\ fec.header.some => fec'.header = fec.header
          /\ fec.cover.some => fec'.cover = fec.cover
          /\ (fec.header.some /\ last'.op = "get_header") =>
                (last'.res = Ok(fec.header.v) /\ fec' = fec)
          /\ (fec.cover.some /\ last'.op = "get_cover") =>
                (last'.res = Ok(fec.cover.v) /\ fec' = fec)
          /\ nheader' <= 1 /\ ncover' <= 1]_vars

\* C3 witness: get_cover succeeded on a FecFile that had already returned
\* lines, hence after the call that set the cover.
C3_Witness ==
    /\ last.op = "get_cover" /\ last.res.kind = "ok"
    /\ emitted # <<>>
    /\ ncover = 1 /\ nheader = 1

\* The positions at which a line that starts after position from can end: the
\* newlines, and the end of the bytes.
LineEnds(bytes, from) ==
    {i \in (from + 1)..Len(bytes) : bytes[i] = NL \/ i = Len(bytes)}

\* The line that ends at position end starts after the line end before it.
LineStart(bytes, from, end) ==
    LET before == {q \in LineEnds(bytes, from) : q < end}
    IN  IF before = {} THEN from + 1
        ELSE (CHOOSE q \in before : \A r \in before : r <= q) + 1

HasSlashStar(bytes, a, b) ==
    \E i \in a..(b - 1) : bytes[i] = "/" /\ bytes[i + 1] = "*"

\* Where the header that starts after position from ends: at the end of the
\* first line, or, when that line holds "/*", at the end of the next line
\* that holds "/*".
ExpectedHeaderEnd(bytes, from) ==
    LET ends  == LineEnds(bytes, from)
        first == CHOOSE e \in ends : \A q \in ends : e <= q
        marks == {e \in ends : e > first /\
                     HasSlashStar(bytes, LineStart(bytes, from, e), e)}
    IN  IF HasSlashStar(bytes, from + 1, first)
        THEN CHOOSE e \in marks : \A q \in marks : e <= q
        ELSE first

\* C4: when the header is decoded, the byte source stands exactly after the
\* newline that ends the last header line, and the delimited reader attached
\* afterwards starts there and reads the input from there on.
C4_HeaderConsumesExactlyItself ==
    fec.header.some =>
        /\ hspan.some
        /\ hspan.v.to = ExpectedHeaderEnd(input, hspan.v.from)
        /\ fec.reader.some => fec.reader.v = hspan.v.to
        /\ fec.csv_reader.some =>
              /\ fec.csv_reader.v.start = hspan.v.to
              /\ fec.csv_reader.v.pos >= hspan.v.to
        /\ (fec.cover.some /\ ValidFiling) =>
              fec.cover.v.form_type = NonHeaderLines[1][1]

\* C4 witness: a legacy header of several lines was decoded, bytes remain
\* after it, and the delimited reader was attached and read the first of them.
C4_Witness ==
    /\ fec.header.some /\ fec.header.v.fec_version = V202
    /\ hspan.v.to = Len(LegacyHeader)
    /\ hspan.v.to < Len(input)
    /\ fec.csv_reader.some /\ fec.csv_reader.v.start = Len(LegacyHeader)
    /\ fec.cover.some

(***************************************************************************)
(* Record writers (writers/base.rs, writers/csv.rs, writers/parquet.rs).   *)
(* A path is the sequence of its components.  The file system holds the    *)
(* directories and the files that exist; the content written through a     *)
(* file handle is kept with the writer that owns the handle.               *)
(***************************************************************************)
\* The same name with nothing replaced.
norm_form_name_verbatim(name) == name

\* FileRecordWriterFactory::norm_form_name: name.replace("/", "-").
norm_form_name(name) ==
    [i \in 1..Len(name) |-> IF name[i] = "/" THEN "-" ELSE name[i]]

EXT_CSV     == <<".","c","s","v">>
EXT_PARQUET == <<".","p","a","r","q","u","e","t">>

\* CSVFileWriterFactory::file_name and ParquetWriterFactory::file_name.
file_name(kind, form_name) ==
    form_name \o (IF kind = "csv" THEN EXT_CSV ELSE EXT_PARQUET)

\* PathBuf::join of a relative name: the components of the name, split at
\* "/", follow those of the base.
path_join(base_path, name) ==
    base_path \o SelectSeq(split(name, "/"), LAMBDA c : c # <<>>)

Ancestors(path) == {SubSeq(path, 1, n) : n \in 1..Len(path)}

\* fs::create_dir_all: every missing directory of the path is created; it
\* fails when a file stands where a directory is needed.
create_dir_all(d, path) ==
    IF \E p \in Ancestors(path) : p \in d.files
    THEN [res |-> Err("io::Error", "NotADirectory"), disk |-> d]
    ELSE [res |-> Ok(Unit),
          disk |-> [d EXCEPT !.dirs = @ \cup Ancestors(path)]]

\* File::create: the file is created (or truncated) in a directory that
\* exists.
file_create(d, path) ==
    IF path = <<>> \/ path \in d.dirs
    THEN [res |-> Err("io::Error", "IsADirectory"), disk |-> d]
    ELSE IF Len(path) > 1 /\ SubSeq(path, 1, Len(path) - 1) \notin d.dirs
    THEN [res |-> Err("io::Error", "NotFound"), disk |-> d]
    ELSE [res |-> Ok(path), disk |-> [d EXCEPT !.files = @ \cup {path}]]

\* Equality of two schemas on every field.
schema_eq_structural(a, b) == a = b

\* PartialEq for RecordSchema: the codes are compared, nothing else.
schema_eq(a, b) == a.code = b.code

\* A writer of any kind.  has_written_header is the flag of the
\* CSVFormWriter, open tells whether the ParquetWriter still holds its
\* ArrowWriter (writer: Some), out is what was written through the handle,
\* builders are the columns a RecordBatchWriter buffers.
\* CSVFormWriter::new and ParquetWriter::new.
new_writer(kind, path, schema) ==
    [kind |-> kind, path |-> path, schema |-> schema,
     has_written_header |-> FALSE, open |-> TRUE, out |-> <<>>,
     builders |-> <<>>]

\* RecordBatchWriter::new: one empty builder per field of the schema.
new_batch_writer(schema) ==
    [kind |-> "batch", path |-> <<>>, schema |-> schema,
     has_written_header |-> FALSE, open |-> TRUE, out |-> <<>>,
     builders |-> [i \in 1..Len(schema.fields) |-> <<>>]]

\* The rows of the output: a row of field names or a row of values.
NamesRow(schema) ==
    [kind |-> "names",
     cells |-> [i \in 1..Len(schema.fields) |-> schema.fields[i].name]]

ValuesRow(record) ==
    [kind |-> "values",
     cells |-> [i \in 1..Len(record.values) |->
                   value_to_string(record.values[i])]]

\* The header written on every call: the flag is never consulted.
maybe_write_header_always(w) ==
    [w EXCEPT !.has_written_header = TRUE,
              !.out = Append(@, NamesRow(w.schema))]

\* CSVFormWriter::maybe_write_header.
maybe_write_header(w) ==
    IF w.has_written_header THEN w
    ELSE [w EXCEPT !.has_written_header = TRUE,
                   !.out = Append(@, NamesRow(w.schema))]

\* CSVFormWriter::write_record.
csv_write_record(w, record) ==
    [res |-> Ok(Unit),
     writer |-> [maybe_write_header(w) EXCEPT
                    !.out = Append(@, ValuesRow(record))]]

\* record_to_arrow_record and ArrowWriter::write: the columns are the field
\* names of the record's schema zipped with its values; a batch of no column
\* cannot be built (unwrap), a batch whose column types are not those of the
\* writer's schema is refused.
ColumnTypes(record) ==
    [i \in 1..Min(Len(record.schema.fields), Len(record.values)) |->
        record.values[i].typ]

SchemaTypes(schema) == [i \in 1..Len(schema.fields) |-> schema.fields[i].typ]

\* ParquetWriter::write_record.
parquet_write_record(w, record) ==
    IF ~w.open
    THEN [res |-> Panic("writing to a closed writer"), writer |-> w]
    ELSE IF ColumnTypes(record) = <<>>
    THEN [res |-> Panic("called Result::unwrap() on an Err value"),
          writer |-> w]
    ELSE IF ColumnTypes(record) # SchemaTypes(w.schema)
    THEN [res |-> Err("io::Error", "schema mismatch"), writer |-> w]
    ELSE [res |-> Ok(Unit),
          writer |-> [w EXCEPT !.out = Append(@, ValuesRow(record))]]

\* RecordBatchWriter::len: the length of the first builder.
batch_len(w) ==
    IF w.builders = <<>> THEN Panic("index out of bounds")
    ELSE Ok(Len(w.builders[1]))

\* A build_batch that leaves the rows in the builders.
build_batch_keeping(w) ==
    [res |-> Ok([schema |-> w.schema, columns |-> w.builders]), writer |-> w]

\* RecordBatchWriter::build_batch: the builders are emptied into the columns
\* of a batch of the writer's schema; RecordBatch::try_new refuses columns of
\* different lengths, and no column at all.
build_batch(w) ==
    IF w.builders = <<>>
          \/ \E i, j \in DOMAIN w.builders :
                Len(w.builders[i]) # Len(w.builders[j])
    THEN [res |-> Panic("called Result::unwrap() on an Err value"),
          writer |-> [w EXCEPT !.builders = [i \in DOMAIN @ |-> <<>>]]]
    ELSE [res |-> Ok([schema |-> w.schema, columns |-> w.builders]),
          writer |-> [w EXCEPT !.builders = [i \in DOMAIN @ |-> <<>>]]]

\* RecordBatchWriter::write_record: a record of another schema is refused;
\* else the i-th value is appended to the i-th builder, which must exist and
\* be of the type of the value.
batch_write_record(w, record) ==
    IF ~schema_eq(record.schema, w.schema)
    THEN [res |-> Err("io::Error", "record schema does not match writer schema"),
          writer |-> w]
    ELSE IF \E i \in DOMAIN record.values :
                \/ i > Len(w.builders)
                \/ record.values[i].typ # w.schema.fields[i].typ
    THEN [res |-> Panic("append_value_to_builder"), writer |-> w]
    ELSE [res |-> Ok(Unit),
          writer |-> [w EXCEPT !.builders =
                         [i \in DOMAIN @ |->
                             IF i <= Len(record.values)
                             THEN Append(@[i], record.values[i])
                             ELSE @[i]]]]

\* RecordWriter::write_record of one writer.
writer_write_record(w, record) ==
    IF w.kind = "csv" THEN csv_write_record(w, record)
    ELSE IF w.kind = "batch" THEN batch_write_record(w, record)
    ELSE parquet_write_record(w, record)

\* RecordWriter::finish of one writer: Ok for the CSV writer (the default)
\* and for the RecordBatchWriter; the ParquetWriter takes its ArrowWriter and
\* closes it, and close() may fail.
writer_finish(w, close_fails) ==
    IF w.kind # "parquet" THEN [res |-> Ok(Unit), writer |-> w]
    ELSE IF ~w.open
    THEN [res |-> Panic("writing to a closed writer"), writer |-> w]
    ELSE [res |-> IF close_fails THEN Err("RecordParseError", "close")
                  ELSE Ok(Unit),
          writer |-> [w EXCEPT !.open = FALSE]]

\* MultiFileRecordWriterFactory::make_writer, with the make of the file
\* factory: the path is base_path/<normalised code>.<ext>, base_path is
\* created, the file is created.
make_writer(factory, d, schema) ==
    LET path == path_join(factory.base_path,
                          file_name(factory.kind, norm_form_name(schema.code)))
        made(c) ==
            IF c.res.kind # "ok" THEN [res |-> c.res, disk |-> c.disk]
            ELSE [res |-> Ok(new_writer(factory.kind, path, schema)),
                  disk |-> c.disk]
        dir(c) ==
            IF c.res.kind # "ok" THEN [res |-> c.res, disk |-> c.disk]
            ELSE made(file_create(c.disk, path))
    IN  dir(create_dir_all(d, factory.base_path))

\* RecordWriterFactory::make_writer of the factory in use: the file factory,
\* or the RecordBatchWriterFactory, which touches no file.
factory_make_writer(factory, d, schema) ==
    IF factory.kind = "batch"
    THEN [res |-> Ok(new_batch_writer(schema)), disk |-> d]
    ELSE make_writer(factory, d, schema)

\* HashMap::entry: the entries (at most one) under a key equal to the schema.
entries_of(m, schema) == {e \in m.writers : schema_eq(e.key, schema)}

\* MultiRecordWriter::get_writer: the entry of the schema, made by the
\* factory and inserted when vacant.
get_writer(m, d, schema) ==
    LET inserted(w) ==
            IF w.res.kind # "ok"
            THEN [res |-> w.res, mw |-> m, disk |-> w.disk, asked |-> TRUE]
            ELSE [res |-> Ok([key |-> schema, writer |-> w.res.v]),
                  mw |-> [m EXCEPT !.writers =
                              @ \cup {[key |-> schema, writer |-> w.res.v]}],
                  disk |-> w.disk, asked |-> TRUE]
    IN  IF entries_of(m, schema) # {}
        THEN [res |-> Ok(CHOOSE e \in entries_of(m, schema) : TRUE),
              mw |-> m, disk |-> d, asked |-> FALSE]
        ELSE inserted(factory_make_writer(m.factory, d, schema))

\* MultiRecordWriter::write_record: the writer of the record's schema is
\* fetched and the record is written to it.
multi_write_record(m, d, record) ==
    LET written(g, e, w) ==
            [res |-> w.res,
             mw |-> [g.mw EXCEPT !.writers =
                        (@ \ {e}) \cup {[key |-> e.key, writer |-> w.writer]}],
             disk |-> g.disk, asked |-> g.asked, to |-> Some(e.key)]
        got(g) ==
            IF g.res.kind # "ok"
            THEN [res |-> g.res, mw |-> g.mw, disk |-> g.disk,
                  asked |-> g.asked, to |-> None]
            ELSE written(g, g.res.v, writer_write_record(g.res.v.writer, record))
    IN  got(get_writer(m, d, record.schema))

\* The loop of MultiRecordWriter::finish over the writers in the order the
\* map yields them: the first finish that fails ends the loop.
RECURSIVE finish_loop(_, _, _, _, _)
finish_loop(m, order, i, failing, finished) ==
    IF i > Len(order) THEN [res |-> Ok(Unit), mw |-> m, finished |-> finished]
    ELSE LET e == order[i]
             step(f) ==
                 LET m2 == [m EXCEPT !.writers =
                               (@ \ {e}) \cup {[key |-> e.key,
                                                writer |-> f.writer]}]
                 IN  IF f.res.kind # "ok"
                     THEN [res |-> f.res, mw |-> m2,
                           finished |-> Append(finished, e.key.code)]
                     ELSE finish_loop(m2, order, i + 1, failing,
                                      Append(finished, e.key.code))
         IN  step(writer_finish(e.writer, e.key.code \in failing))

\* MultiRecordWriter::finish.
multi_finish(m, order, failing) == finish_loop(m, order, 1, failing, <<>>)

\* The orders in which a HashMap may yield its entries: every one.
Orders(S) ==
    {o \in [1..Cardinality(S) -> S] : \A e \in S : \E i \in DOMAIN o : o[i] = e}

(***************************************************************************)
(* A MultiRecordWriter over the file factories, fed records and finished.  *)
(***************************************************************************)
MaxWriterCalls == 3

S_out  == <<"o","u","t">>
S_SB23 == <<"S","B","2","3">>
S_SC10 == <<"S","C","/","1","0">>
S_SC_10 == <<"S","C","-","1","0">>
OutDir == <<S_out>>

SchemaSA ==
    [code |-> S_SA11,
     fields |-> <<[name |-> "filer_committee_id_number", typ |-> "String"],
                  [name |-> "transaction_id", typ |-> "String"]>>]

\* The schema another version of the format has for the same line code.
SchemaSAOther ==
    [code |-> S_SA11,
     fields |-> <<[name |-> "filer_committee_id_number", typ |-> "String"]>>]

SchemaSB ==
    [code |-> S_SB23, fields |-> <<[name |-> "amount", typ |-> "Integer"]>>]

SchemaSC ==
    [code |-> S_SC10,
     fields |-> <<[name |-> "filer_committee_id_number", typ |-> "String"]>>]

\* A schema of the code SC-10, which differs from SC/10 in the slash only.
SchemaSCDash ==
    [code |-> S_SC_10,
     fields |-> <<[name |-> "filer_committee_id_number", typ |-> "String"]>>]

MakeRecord(schema, values) ==
    [record_type |-> schema.code, schema |-> schema, values |-> values]

WRecords == {
    MakeRecord(SchemaSA, <<Value("String", Some(S_C1)),
                           Value("String", Some(S_T1))>>),
    MakeRecord(SchemaSA, <<Value("String", Some(S_C1)),
                           Value("String", None)>>),
    MakeRecord(SchemaSAOther, <<Value("String", Some(S_C1))>>),
    MakeRecord(SchemaSB, <<Value("Integer", Some(42))>>),
    MakeRecord(SchemaSC, <<Value("String", Some(S_T1))>>),
    MakeRecord(SchemaSCDash, <<Value("String", Some(S_C1))>>) }

WriterKinds == {"csv", "parquet"}

InitWriters ==
    /\ InitRegistry
    /\ InitNoFec
    /\ \E kind \in WriterKinds :
          mw = [factory |-> [kind |-> kind, base_path |-> OutDir,
                            capacity |-> 0],
                writers |-> {}]
    /\ disk \in {[dirs |-> {}, files |-> {}],
                 [dirs |-> {OutDir}, files |-> {}]}
    /\ whist = [calls |-> <<>>, records |-> <<>>, made |-> <<>>,
                forwarded |-> <<>>, finishes |-> <<>>,
                batches |-> <<>>]
    /\ wlast = [op |-> "none", res |-> Ok(Unit)]

WriterRunning ==
    /\ wlast.res.kind # "panic"
    /\ Len(whist.calls) < MaxWriterCalls

\* MultiRecordWriter::write_record on one record.
WriteRecord(record) ==
    /\ WriterRunning
    /\ LET done(r) ==
              /\ mw' = r.mw
              /\ disk' = r.disk
              /\ whist' = [whist EXCEPT
                    !.calls = Append(@, "write_record"),
                    !.records = Append(@, record),
                    !.made = IF r.asked
                             THEN Append(@, [code |-> record.schema.code,
                                             at |-> Len(whist.records) + 1])
                             ELSE @,
                    !.forwarded = IF r.to.some
                                  THEN Append(@, [record |-> record,
                                                  to |-> r.to.v.code,
                                                  res |-> r.res])
                                  ELSE @]
              /\ wlast' = [op |-> "write_record", res |-> r.res]
       IN  done(multi_write_record(mw, disk, record))
    /\ UNCHANGED <<lookupVars, parseVars, fecVars>>

\* MultiRecordWriter::finish, the map yielding its writers in some order and
\* the close of some of the Parquet writers failing.
Finish ==
    /\ WriterRunning
    /\ \E order \in Orders(mw.writers),
          failing \in SUBSET {e.key.code : e \in {x \in mw.writers :
                                                     x.writer.kind = "parquet"}} :
          LET done(r) ==
                 /\ mw' = r.mw
                 /\ whist' = [whist EXCEPT
                       !.calls = Append(@, "finish"),
                       !.finishes = Append(@,
                           [writers |-> {e.key.code : e \in mw.writers},
                            finished |-> r.finished,
                            res |-> r.res])]
                 /\ wlast' = [op |-> "finish", res |-> r.res]
          IN  done(multi_finish(mw, order, failing))
    /\ UNCHANGED <<disk, lookupVars, parseVars, fecVars>>

NextWriters ==
    \/ \E record \in WRecords : WriteRecord(record)
    \/ Finish

SpecWriters == InitWriters /\ [][NextWriters]_vars

(***************************************************************************)
(* Properties of the MultiRecordWriter.                                    *)
(***************************************************************************)
CodesSeen == {whist.records[i].schema.code : i \in DOMAIN whist.records}

FirstOf(code) ==
    CHOOSE i \in DOMAIN whist.records :
        /\ whist.records[i].schema.code = code
        /\ \A j \in 1..(i - 1) : whist.records[j].schema.code # code

\* C13: after any sequence of write_record calls there is exactly one writer
\* per schema code seen and none for another code, the factory was asked for
\* a writer exactly once per code, at the first record of that code, and
\* every record was forwarded to the writer of its own schema code; the files
\* created are those named after the codes.
C13_OneWriterPerCode ==
    /\ \A c \in CodesSeen :
          Cardinality({e \in mw.writers : e.key.code = c}) = 1
    /\ \A e \in mw.writers : e.key.code \in CodesSeen
    /\ \A c \in CodesSeen :
          /\ Cardinality({i \in DOMAIN whist.made : whist.made[i].code = c}) = 1
          /\ \A i \in DOMAIN whist.made :
                whist.made[i].code = c => whist.made[i].at = FirstOf(c)
    /\ \A i \in DOMAIN whist.made : whist.made[i].code \in CodesSeen
    /\ Len(whist.forwarded) = Len(whist.records)
    /\ \A i \in DOMAIN whist.forwarded :
          /\ whist.forwarded[i].record = whist.records[i]
          /\ whist.forwarded[i].to = whist.records[i].schema.code
    /\ disk.files =
          {path_join(mw.factory.base_path,
                     file_name(mw.factory.kind, norm_form_name(c))) : c \in CodesSeen}

\* C13 witness: records of the codes SA11, SB23, SA11 were written to the
\* CSV dispatcher, the two SA11 records under different schemas, and exactly
\* SA11.csv and SB23.csv exist.
C13_Witness ==
    /\ mw.factory.kind = "csv"
    /\ Len(whist.records) = 3
    /\ whist.records[1].schema = SchemaSA
    /\ whist.records[2].schema = SchemaSB
    /\ whist.records[3].schema = SchemaSAOther
    /\ disk.files = {<<S_out, S_SA11 \o EXT_CSV>>, <<S_out, S_SB23 \o EXT_CSV>>}
    /\ Cardinality(mw.writers) = 2

\* C14: every call of finish on the MultiRecordWriter calls finish on every
\* writer the MultiRecordWriter holds, whatever the individual finish calls
\* return.
C14_FinishReachesEveryWriter ==
    \A i \in DOMAIN whist.finishes :
        {whist.finishes[i].finished[j] : j \in DOMAIN whist.finishes[i].finished}
            = whist.finishes[i].writers

\* The records forwarded to the writer of a code, in call order.
ForwardedTo(code) ==
    LET hits == SelectSeq(whist.forwarded, LAMBDA f : f.to = code)
    IN  [i \in 1..Len(hits) |-> hits[i].record]

CsvWriters == {e \in mw.writers : e.writer.kind = "csv"}

\* C15: the output of every delimited-text writer is one row of the field
\* names of its schema, in schema order, followed by one row of values per
\* write_record call made on it, in call order; the row of names is there
\* from the first write_record on and nowhere else.
C15_OneHeaderThenRows ==
    \A e \in CsvWriters :
        LET recs == ForwardedTo(e.key.code)
            out  == e.writer.out
        IN  /\ Len(recs) >= 1
            /\ Len(out) = Len(recs) + 1
            /\ out[1].kind = "names"
            /\ Len(out[1].cells) = Len(e.writer.schema.fields)
            /\ \A k \in DOMAIN out[1].cells :
                  out[1].cells[k] = e.writer.schema.fields[k].name
            /\ \A i \in DOMAIN recs :
                  /\ out[i + 1].kind = "values"
                  /\ Len(out[i + 1].cells) = Len(recs[i].values)
                  /\ \A k \in DOMAIN recs[i].values :
                        out[i + 1].cells[k] = value_to_string(recs[i].values[k])

\* C15 witness: a delimited-text writer took three records, one of them with
\* an absent value, and holds four rows.
C15_Witness ==
    \E e \in CsvWriters :
        /\ Len(ForwardedTo(e.key.code)) = 3
        /\ Len(e.writer.out) = 4
        /\ \E i \in 2..4 : /\ Len(e.writer.out[i].cells) = 2
                            /\ e.writer.out[i].cells[2] = <<>>
        /\ \E i \in 2..4 : /\ Len(e.writer.out[i].cells) = 2
                            /\ e.writer.out[i].cells[2] = S_T1

(***************************************************************************)
(* The processors: CSVProcessor (writers/csv.rs) and RecordBatchProcessor  *)
(* (writers/arrow.rs), each driving one FecFile into a MultiRecordWriter.  *)
(***************************************************************************)
\* The history of the writers after a write_record call that gave r.
noted(h, record, r) ==
    [h EXCEPT
        !.records = Append(@, record),
        !.made = IF r.asked
                 THEN Append(@, [code |-> record.schema.code,
                                 at |-> Len(h.records) + 1])
                 ELSE @,
        !.forwarded = IF r.to.some
                      THEN Append(@, [record |-> record, to |-> r.to.v.code,
                                      res |-> r.res])
                      ELSE @]

\* The loop of CSVProcessor::process: every line the FecFile gives is parsed
\* by the CoercingLineParser and written; the first error ends the loop.
\* s holds the FecFile and the registry (w), the writers (mw), the file
\* system (disk), the history (h) and the lines taken (lines).
RECURSIVE process_loop(_, _)
process_loop(s, fec_version) ==
    LET written(s3, record, r) ==
            IF r.res.kind # "ok"
            THEN [s3 EXCEPT !.res = r.res, !.mw = r.mw, !.disk = r.disk,
                            !.h = noted(s3.h, record, r)]
            ELSE process_loop([s3 EXCEPT !.mw = r.mw, !.disk = r.disk,
                                         !.h = noted(s3.h, record, r)],
                              fec_version)
        parsed(s2, p) ==
            IF p.out.kind # "ok"
            THEN [s2 EXCEPT !.res = p.out, !.w.cache = p.cache,
                            !.w.heap = p.heap]
            ELSE written([s2 EXCEPT !.w.cache = p.cache, !.w.heap = p.heap],
                         p.out.v,
                         multi_write_record(s2.mw, s2.disk, p.out.v))
        taken(n) ==
            IF n.res.kind = "none" THEN [s EXCEPT !.w = n.w, !.res = Ok(Unit)]
            ELSE IF n.res.kind # "ok" THEN [s EXCEPT !.w = n.w, !.res = n.res]
            ELSE parsed([s EXCEPT !.w = n.w, !.lines = Append(@, n.res.v)],
                        parse_line("coercing", n.w.cache, n.w.heap,
                                   fec_version, n.res.v))
    IN  taken(next_line(s.w))

\* CSVProcessor::process up to the end of its loop: the version is read from
\* the header and the lines are written.
csv_process_lines(s) ==
    LET headed(g) ==
            IF g.res.kind # "ok" THEN [s EXCEPT !.w = g.w, !.res = g.res]
            ELSE process_loop([s EXCEPT !.w = g.w], g.res.v.fec_version)
    IN  headed(get_header(s.w))

\* An end of process that finishes the writers whatever the loop returned.
csv_process_finish_always(l, order) ==
    LET finished(f) ==
            [l EXCEPT !.res = IF l.res.kind # "ok" THEN l.res ELSE f.res,
                      !.mw = f.mw,
                      !.h.finishes = Append(@,
                          [writers |-> {e.key.code : e \in l.mw.writers},
                           finished |-> f.finished, res |-> f.res])]
    IN  finished(multi_finish(l.mw, order, {}))

\* The end of CSVProcessor::process: when the loop ended without an error
\* the writers are finished, in the order the map yields them.
csv_process_finish(l, order) ==
    LET finished(f) ==
            [l EXCEPT !.res = f.res, !.mw = f.mw,
                      !.h.finishes = Append(@,
                          [writers |-> {e.key.code : e \in l.mw.writers},
                           finished |-> f.finished, res |-> f.res])]
    IN  IF l.res.kind # "ok" THEN l
        ELSE finished(multi_finish(l.mw, order, {}))

\* The writer of a key.
writer_of(m, key) == (CHOOSE e \in m.writers : schema_eq(e.key, key)).writer

\* The writers with the writer of a key replaced.
with_writer(m, key, w) ==
    [m EXCEPT !.writers =
        {e \in @ : ~schema_eq(e.key, key)} \cup {[key |-> key, writer |-> w]}]

\* RecordBatchProcessor::get_leftover_batch: the batch of the first writer,
\* in the order the map yields them, that holds a row.
RECURSIVE get_leftover_batch(_, _, _)
get_leftover_batch(m, order, i) ==
    LET built(e, b) ==
            [res |-> IF b.res.kind = "ok" THEN Ok(Some(b.res.v)) ELSE b.res,
             mw |-> with_writer(m, e.key, b.writer)]
        sized(e, n) ==
            IF n.kind # "ok" THEN [res |-> n, mw |-> m]
            ELSE IF n.v > 0 THEN built(e, build_batch(e.writer))
            ELSE get_leftover_batch(m, order, i + 1)
    IN  IF i > Len(order) THEN [res |-> Ok(None), mw |-> m]
        ELSE sized(order[i], batch_len(order[i].writer))

\* The loop of RecordBatchProcessor::next_batch: lines are parsed and written
\* until a writer holds max_batch_size rows (its batch is returned), the
\* input ends (Exhausted is returned for the leftover to be fetched), or a
\* call fails.
RECURSIVE next_batch_loop(_, _, _)
next_batch_loop(s, fec_version, max_batch_size) ==
    LET built(s4, key, b) ==
            [s4 EXCEPT !.res = IF b.res.kind = "ok" THEN Ok(Some(b.res.v))
                               ELSE b.res,
                       !.mw = with_writer(s4.mw, key, b.writer)]
        sized(s4, key, n) ==
            IF n.kind # "ok" THEN [s4 EXCEPT !.res = n]
            ELSE IF n.v >= max_batch_size
            THEN built(s4, key, build_batch(writer_of(s4.mw, key)))
            ELSE next_batch_loop(s4, fec_version, max_batch_size)
        written(s3, record, r) ==
            IF r.res.kind # "ok"
            THEN [s3 EXCEPT !.res = r.res, !.mw = r.mw, !.disk = r.disk,
                            !.h = noted(s3.h, record, r)]
            ELSE sized([s3 EXCEPT !.mw = r.mw, !.disk = r.disk,
                                  !.h = noted(s3.h, record, r)],
                       r.to.v, batch_len(writer_of(r.mw, r.to.v)))
        parsed(s2, p) ==
            IF p.out.kind # "ok"
            THEN [s2 EXCEPT !.res = p.out, !.w.cache = p.cache,
                            !.w.heap = p.heap]
            ELSE written([s2 EXCEPT !.w.cache = p.cache, !.w.heap = p.heap],
                         p.out.v,
                         multi_write_record(s2.mw, s2.disk, p.out.v))
        taken(n) ==
            IF n.res.kind = "none"
            THEN [s EXCEPT !.w = n.w, !.res = [kind |-> "none"]]
            ELSE IF n.res.kind # "ok" THEN [s EXCEPT !.w = n.w, !.res = n.res]
            ELSE parsed([s EXCEPT !.w = n.w, !.lines = Append(@, n.res.v)],
                        parse_line("coercing", n.w.cache, n.w.heap,
                                   fec_version, n.res.v))
    IN  taken(next_line(s.w))

\* RecordBatchProcessor::next_batch up to the end of its loop.
next_batch_lines(s, max_batch_size) ==
    LET headed(g) ==
            IF g.res.kind # "ok" THEN [s EXCEPT !.w = g.w, !.res = g.res]
            ELSE next_batch_loop([s EXCEPT !.w = g.w], g.res.v.fec_version,
                                 max_batch_size)
    IN  headed(get_header(s.w))

\* The end of RecordBatchProcessor::next_batch: at the end of the input the
\* leftover batch, if any, is the result.
next_batch_leftover(l, order) ==
    LET left(b) == [l EXCEPT !.res = b.res, !.mw = b.mw]
    IN  IF l.res.kind # "none" THEN l
        ELSE left(get_leftover_batch(l.mw, order, 1))

(***************************************************************************)
(* The processors applied to one filing.                                   *)
(***************************************************************************)
BatchSizes == {1, 2}

\* Lines after the header: a cover line, an itemization shorter than its
\* schema, a line whose code holds a slash, a line of no schema, and a line
\* with more values than its schema.
ProcLines == { <<S_F3XN, S_C1>>, <<S_SA11, S_C1, S_T1>>, <<S_SC10, S_C1>>,
               <<S_ZZZ, <<"x">>>>, <<S_SA11, S_C1, S_T1, S_NGP8, <<"x">>>> }

ProcHeaders == { [bytes |-> ModernHeader(COMMA), d |-> COMMA],
                 [bytes |-> LegacyHeader, d |-> COMMA] }

\* CSVProcessor::new(out_dir) or RecordBatchProcessor::new(max_batch_size),
\* and FecFile::from_reader on the bytes of a filing.
InitProcess ==
    /\ InitRegistry
    /\ \E h \in ProcHeaders, body \in SeqsUpTo(ProcLines, MaxBodyLines) :
          /\ filing = Some([h |-> h, body |-> body])
          /\ input = FileBytes(h, body)
    /\ fec = from_reader
    /\ \/ /\ mw = [factory |-> [kind |-> "csv", base_path |-> OutDir,
                                capacity |-> 0],
                   writers |-> {}]
          /\ disk \in {[dirs |-> {}, files |-> {}],
                       [dirs |-> {OutDir}, files |-> {}]}
       \/ /\ \E n \in BatchSizes :
                mw = [factory |-> [kind |-> "batch", base_path |-> <<>>,
                                   capacity |-> n],
                      writers |-> {}]
          /\ disk = [dirs |-> {}, files |-> {}]
    /\ whist = [calls |-> <<>>, records |-> <<>>, made |-> <<>>,
                forwarded |-> <<>>, finishes |-> <<>>,
                batches |-> <<>>]
    /\ wlast = [op |-> "none", res |-> Ok(Unit)]

\* The processor, its FecFile and the registry at the start of a call.
ProcState ==
    [w |-> World, mw |-> mw, disk |-> disk, h |-> whist, lines |-> <<>>,
     res |-> Ok(Unit)]

\* What a call of a processor did.
Processed(op, r) ==
    /\ fec' = r.w.fec
    /\ CACHE' = r.w.cache
    /\ heap' = r.w.heap
    /\ hspan' = r.w.hspan
    /\ nheader' = r.w.nheader
    /\ ncover' = r.w.ncover
    /\ last' = [op |-> op, res |-> r.res]
    /\ emitted' = emitted \o r.lines
    /\ outcomes' = outcomes
    /\ mw' = r.mw
    /\ disk' = r.disk
    /\ whist' = [r.h EXCEPT
          !.calls = Append(@, op),
          !.batches = IF op = "next_batch" /\ r.res.kind = "ok" /\ r.res.v.some
                      THEN Append(@, r.res.v.v) ELSE @]
    /\ wlast' = [op |-> op, res |-> r.res]
    /\ UNCHANGED <<input, filing, pc, tkey, tlocal, returned, writes, ncalls,
                   parseVars>>

\* CSVProcessor::process on the FecFile.
Process ==
    /\ WriterRunning
    /\ mw.factory.kind = "csv"
    /\ LET finish(l) ==
              \E order \in Orders(l.mw.writers) :
                  Processed("process", csv_process_finish(l, order))
       IN  finish(csv_process_lines(ProcState))

\* RecordBatchProcessor::next_batch on the FecFile.
NextBatch ==
    /\ WriterRunning
    /\ mw.factory.kind = "batch"
    /\ LET leftover(l) ==
              \E order \in Orders(l.mw.writers) :
                  Processed("next_batch", next_batch_leftover(l, order))
       IN  leftover(next_batch_lines(ProcState, mw.factory.capacity))

NextProcess == Process \/ NextBatch

SpecProcess == InitProcess /\ [][NextProcess]_vars

(***************************************************************************)
(* Properties of the processors.                                           *)
(***************************************************************************)
\* The extension of the files of a file factory.
ExtOf(kind) == IF kind = "csv" THEN EXT_CSV ELSE EXT_PARQUET

\* name is code with every "/" replaced by "-", followed by ext.
IsFileNameOf(name, code, ext) ==
    /\ Len(name) = Len(code) + Len(ext)
    /\ \A i \in 1..Len(code) :
          name[i] = (IF code[i] = "/" THEN "-" ELSE code[i])
    /\ SubSeq(name, Len(code) + 1, Len(name)) = ext

\* A line that has a schema under the version and no more values than it.
WellFormedLine(version, line) ==
    LET fits(l) == l.ok /\ Len(line) - 1 <= Len(l.schema.fields)
    IN  fits(do_lookup(version, line[1]))

\* A valid filing each of whose lines after the cover is well formed.
ProcessableFiling ==
    /\ ValidFiling
    /\ \A i \in 2..Len(filing.v.body) :
          WellFormedLine(VersionOf(filing.v.h), filing.v.body[i])

HasSlash(code) == \E i \in DOMAIN code : code[i] = "/"

\* C16: the writer a file factory made for schema code c is bound to
\* <out_dir>/<c with every "/" replaced by "-">.<ext>, that file exists and
\* out_dir exists, whether or not it existed before; CSVProcessor::process
\* never fails on the file system, and on a filing whose lines all have a
\* schema and fit it, line codes with "/" included, it returns Ok.
C16_FilesNamedAfterNormalisedCode ==
    /\ \A e \in mw.writers :
          e.writer.kind \in {"csv", "parquet"} =>
              /\ Len(e.writer.path) = Len(mw.factory.base_path) + 1
              /\ SubSeq(e.writer.path, 1, Len(mw.factory.base_path))
                    = mw.factory.base_path
              /\ IsFileNameOf(e.writer.path[Len(e.writer.path)], e.key.code,
                              ExtOf(e.writer.kind))
              /\ e.writer.path \in disk.files
              /\ mw.factory.base_path \in disk.dirs
    /\ wlast.op = "process" =>
          /\ wlast.res.kind = "err" => wlast.res.err.kind # "io::Error"
          /\ ProcessableFiling => wlast.res = Ok(Unit)

\* C16 witness: a filing with two SC/10 lines was processed into a directory
\* that did not exist; process returned Ok and out/SC-10.csv holds the header
\* row and the two rows.
C16_Witness ==
    /\ wlast.op = "process" /\ wlast.res = Ok(Unit)
    /\ filing.v.body = << <<S_F3XN, S_C1>>, <<S_SC10, S_C1>>, <<S_SC10, S_C1>> >>
    /\ disk.files = {<<S_out, <<"S","C","-","1","0",".","c","s","v">>>>}
    /\ disk.dirs = {OutDir}
    /\ \E e \in mw.writers : HasSlash(e.key.code) /\ Len(e.writer.out) = 3

\* The rows of a batch, or of the builders of a writer: row k holds the k-th
\* value of every column.
RowsOf(columns) ==
    IF columns = <<>> THEN <<>>
    ELSE [k \in 1..Len(columns[1]) |->
             [i \in 1..Len(columns) |-> columns[i][k]]]

\* The rows of the batches returned so far for a code, in the order returned.
RECURSIVE BatchedRows(_, _)
BatchedRows(batches, code) ==
    IF batches = <<>> THEN <<>>
    ELSE (IF Head(batches).schema.code = code
          THEN RowsOf(Head(batches).columns) ELSE <<>>)
         \o BatchedRows(Tail(batches), code)

\* The rows a writer of the code still buffers.
BufferedRows(code) ==
    IF \E e \in mw.writers : e.key.code = code
    THEN RowsOf((CHOOSE e \in mw.writers : e.key.code = code).writer.builders)
    ELSE <<>>

\* The values of the records written so far for a code, in the order written.
WrittenRows(code) ==
    LET hits == SelectSeq(whist.records, LAMBDA r : r.schema.code = code)
    IN  [i \in 1..Len(hits) |-> hits[i].values]

\* The records of a filing: its lines after the cover line that have a
\* schema, parsed by the coercing parser.
RECURSIVE RecordsOf(_, _, _)
RecordsOf(version, body, i) ==
    LET rest == RecordsOf(version, body, i + 1)
        one(l) ==
            IF ~l.ok THEN rest
            ELSE <<MakeRecord(l.schema,
                              coercing_parse_values_unchecked(
                                  l.schema, Tail(body[i])).v)>> \o rest
    IN  IF i > Len(body) THEN <<>> ELSE one(do_lookup(version, body[i][1]))

BatchCalls == mw.factory.kind = "batch"

ReturnedNone == wlast.op = "next_batch" /\ wlast.res = Ok(None)

\* C17: the batches next_batch returned and the rows the writers still
\* buffer hold, code by code and in order, exactly the records written, each
\* once; a batch holds rows of the one schema it carries, at least one and at
\* most max_batch_size; between calls no writer holds max_batch_size rows;
\* when next_batch returns None no writer holds a row, and the batches hold
\* exactly the records of the filing.
C17_BatchesPartitionTheRecords ==
    BatchCalls =>
        /\ \A r \in {whist.records[i] : i \in DOMAIN whist.records} :
              BatchedRows(whist.batches, r.schema.code)
                    \o BufferedRows(r.schema.code)
                 = WrittenRows(r.schema.code)
        /\ \A i \in DOMAIN whist.batches :
              LET b == whist.batches[i]
              IN  /\ Len(b.columns) = Len(b.schema.fields)
                  /\ Len(RowsOf(b.columns)) \in 1..mw.factory.capacity
                  /\ \A k \in DOMAIN b.columns :
                        /\ Len(b.columns[k]) = Len(b.columns[1])
                        /\ \A j \in DOMAIN b.columns[k] :
                              b.columns[k][j].typ = b.schema.fields[k].typ
                  /\ \E r \in {whist.records[j] : j \in DOMAIN whist.records} :
                        r.schema = b.schema
        /\ \A e \in mw.writers :
              Len(RowsOf(e.writer.builders)) < mw.factory.capacity
        /\ ReturnedNone =>
              /\ \A e \in mw.writers : RowsOf(e.writer.builders) = <<>>
              /\ ValidFiling =>
                    whist.records =
                        RecordsOf(VersionOf(filing.v.h), filing.v.body, 2)

\* C17 witness: batches of one row each of two schemas were returned, then
\* None.
C17_Witness ==
    /\ BatchCalls /\ ReturnedNone
    /\ Len(whist.batches) = 2
    /\ whist.batches[1].schema.code # whist.batches[2].schema.code
    /\ ValidFiling
    /\ Len(whist.records) = 2

(***************************************************************************)
(* Terminal states of the FecFile.                                         *)
(***************************************************************************)
\* C18 (as claimed): once a call has failed with HeaderParseError, every
\* later call fails and no header, cover or line is produced.
C18_HeaderErrorsTerminal ==
    "header_error" \in outcomes =>
        /\ last.res.kind = "err"
        /\ ~fec.header.some
        /\ ~fec.cover.some
        /\ emitted = <<>>

\* C19 (as claimed): once get_cover or next_line has failed while the cover
\* line was obtained or parsed, every later get_cover and next_line fails, no
\* cover is set and no line is returned.
C19_CoverErrorsTerminal ==
    "cover_error" \in outcomes =>
        /\ last.op \in {"get_cover", "next_line"} => last.res.kind = "err"
        /\ ~fec.cover.some
        /\ emitted = <<>>

\* C20: once next_line has returned None, the header and the cover are set
\* and stay as they are, every next_line returns None, and get_header and
\* get_cover return the header and the cover that are set.
C20_ExhaustedIsAbsorbing ==
    /\ []("end" \in outcomes =>
            /\ fec.header.some /\ fec.cover.some
            /\ last.op = "next_line" => last.res.kind = "none"
            /\ last.op = "get_header" => last.res = Ok(fec.header.v)
            /\ last.op = "get_cover" => last.res = Ok(fec.cover.v))
    /\ [][ "end" \in outcomes =>
              /\ fec'.header = fec.header
              /\ fec'.cover = fec.cover
              /\ emitted' = emitted ]_vars

\* C20 witness: after the end of a filing of which a line was returned,
\* get_cover was called.
C20_Witness ==
    /\ "end" \in outcomes
    /\ emitted # <<>>
    /\ last.op = "get_cover"

(***************************************************************************)
(* The states of the driver.                                               *)
(***************************************************************************)
\* Fresh 0, HeaderReady 1, ReaderAttached 2, CoverReady 3, Exhausted 4, read
\* off the fields of a FecFile and, for Exhausted, off the history.
DriverState(f, o) ==
    IF ~f.header.some THEN 0
    ELSE IF ~f.csv_reader.some THEN 1
    ELSE IF ~f.cover.some THEN 2
    ELSE IF "end" \notin o THEN 3
    ELSE 4

\* C21: across every call of get_header, get_cover and next_line, failing
\* calls included, the state of the driver does not decrease, and a header, a
\* delimiter, a delimited reader or a cover that is set stays set and is not
\* replaced (the reader only moves forward in the input).
C21_DriverStateMonotonic ==
    [][ /\ DriverState(fec', outcomes') >= DriverState(fec, outcomes)
        /\ fec.header.some => fec'.header = fec.header
        /\ fec.sep.some => fec'.sep = fec.sep
        /\ fec.cover.some => fec'.cover = fec.cover
        /\ fec.csv_reader.some =>
              /\ fec'.csv_reader.some
              /\ fec'.csv_reader.v.start = fec.csv_reader.v.start
              /\ fec'.csv_reader.v.delimiter = fec.csv_reader.v.delimiter
              /\ fec'.csv_reader.v.pos >= fec.csv_reader.v.pos ]_vars

\* C21 witness: the driver is Exhausted after a call that failed on the way:
\* a cover error was returned, and later lines were returned.
C21_Witness ==
    /\ DriverState(fec, outcomes) = 4
    /\ "cover_error" \in outcomes
    /\ emitted # <<>>

(***************************************************************************)
(* I/O errors of the byte source.                                          *)
(***************************************************************************)
\* The position up to which the FecFile has read its byte source.
ReadPos(f) ==
    IF f.csv_reader.some THEN f.csv_reader.v.pos
    ELSE IF f.reader.some THEN f.reader.v
    ELSE 0

\* The step read the source over a point where the read fails.
FaultRead ==
    \E i \in (ReadPos(fec) + 1)..ReadPos(fec') : input[i] = IO_FAULT

\* C22: an I/O error of the byte source, met while the header, the cover line
\* or an itemization line is read, reaches the caller as Error::IoError: the
\* call that met it returns that error and none of HeaderParseError,
\* CoverParseError, RecordParseError.
C22_IoErrorsSurfacedUnchanged ==
    [][FaultRead => /\ last'.res.kind = "err"
                    /\ last'.res.err.kind = "IoError"]_vars

(***************************************************************************)
(* Errors of one line of the delimited reader.                             *)
(***************************************************************************)
\* next_line returned the error of the reader on one line.
ReaderError ==
    /\ last.op = "next_line"
    /\ last.res.kind = "err"
    /\ last.res.err.kind = "RecordParseError"
    /\ last.res.err.message \in {IO_ERROR_MESSAGE, UTF8_ERROR_MESSAGE}

\* The position of the first newline at or after position pos, the end of
\* the input when there is none.
NewlineFrom(pos) ==
    IF \E i \in pos..Len(input) : i >= 1 /\ input[i] = NL
    THEN CHOOSE i \in pos..Len(input) :
             /\ i >= 1 /\ input[i] = NL
             /\ \A j \in pos..(i - 1) : j >= 1 => input[j] # NL
    ELSE Len(input)

\* What next_line is to return for the line of the input that follows the
\* line the reader stands in at position pos: the fields of that line, None
\* when the input ends with the line the reader stands in.
FollowingLine(pos, d) ==
    LET from == NewlineFrom(pos)
        to   == NewlineFrom(from + 1)
        text == SubSeq(input, from + 1, IF input[to] = NL THEN to - 1 ELSE to)
    IN  IF from >= Len(input) THEN [kind |-> "none"]
        ELSE IF \E i \in 1..Len(text) : text[i] \in {IO_FAULT, BAD_UTF8}
        THEN Err("RecordParseError",
                 IF \E i \in 1..Len(text) : text[i] = IO_FAULT
                 THEN IO_ERROR_MESSAGE ELSE UTF8_ERROR_MESSAGE)
        ELSE Ok(split(text, d))

TakesFirstLine ==
    /\ filing.some
    /\ filing.v.h \in GoodHeaders
    /\ filing.v.body # <<>>
    /\ ~fec.csv_reader.some \/ fec.csv_reader.v.pos = fec.csv_reader.v.start
    /\ fec'.csv_reader.some
    /\ fec'.csv_reader.v.pos > fec'.csv_reader.v.start

\* The names of the schema fields that the values of a line are held under.
ValueNames(version, line_code) ==
    LET l == do_lookup(version, line_code)
    IN  [i \in 1..Len(l.schema.fields) |-> l.schema.fields[i].name]

\* The place of the committee id among the values of a line of the schema, 0
\* when the schema has no such field.
CommitteeIdIndex(names) ==
    IF \E i \in 1..Len(names) : names[i] = "filer_committee_id_number"
    THEN CHOOSE i \in 1..Len(names) :
             /\ names[i] = "filer_committee_id_number"
             /\ \A j \in 1..(i - 1) : names[j] # "filer_committee_id_number"
    ELSE 0

\* C24: the call that takes the first line after the header builds the cover
\* from it under the literal policy: form_type is the line's first field and
\* filer_committee_id the value under the schema field
\* filer_committee_id_number; when the schema has no such field, or the line
\* ends before it, the call returns CoverParseError and sets no cover.
C24_CoverFromFirstLine ==
    [][LET line  == filing.v.body[1]
           names == ValueNames(VersionOf(filing.v.h), line[1])
           at    == CommitteeIdIndex(names)
       IN  (/\ TakesFirstLine
            /\ IsText(line)
            /\ do_lookup(VersionOf(filing.v.h), line[1]).ok
            /\ Len(line) - 1 <= Len(names)) =>
               IF at > 0 /\ Len(line) - 1 >= at
               THEN fec'.cover = Some([form_type |-> line[1],
                                       filer_committee_id |-> line[at + 1]])
               ELSE /\ ~fec'.cover.some
                    /\ last'.res.kind = "err"
                    /\ last'.res.err.kind = "CoverParseError"]_vars

\* get_cover built the cover F3XN / C1 from the first line after the header.
C24_Witness ==
    /\ last.op = "get_cover" /\ last.res.kind = "ok"
    /\ filing.some
    /\ fec.cover = Some([form_type |-> S_F3XN, filer_committee_id |-> S_C1])
    /\ filing.v.body[1] = <<S_F3XN, S_C1>>
    /\ ncover = 1
    /\ "cover_error" \notin outcomes

(***************************************************************************)
(* The header decoder on its own: parse_header is called once on a byte    *)
(* source that starts with a header.                                       *)
(***************************************************************************)
MaxHeaderLines == 4

\* The lines of a legacy header between the opening and the closing line: a
\* key and its value, or the schedule counts line.
KV(key, value) == [kv |-> TRUE, key |-> key, value |-> value]
ScheduleLine   == [kv |-> FALSE]

LegacyLines == {
    KV(<<"F","E","C","_","V","e","r","_","#">>, V202),
    KV(<<"f","e","c","_","v","e","r","_","#">>, V83),
    KV(<<"S","o","f","t","_","N","a","m","e">>, <<"F","E","C">>),
    KV(<<"S","O","F","T","_","V","E","R","#">>, <<"3">>),
    KV(<<"D","e","c","/","N","o","D","e","c">>, <<"D","E","C">>),
    ScheduleLine }

LegacyLineBytes(l) ==
    IF l.kv THEN l.key \o <<" ", "=", " ">> \o l.value
    ELSE <<"S","c","h","e","d","u","l","e","_","C","o","u","n","t","s",":">>

\* The bytes of a legacy header: the opening line, the lines, the closing
\* line when the header is closed.
LegacyHeaderBytes(lines, closed) ==
    <<"/", "*", " ", "H", "e", "a", "d", "e", "r", NL>>
        \o Concat([i \in 1..Len(lines) |-> LegacyLineBytes(lines[i]) \o <<NL>>])
        \o (IF closed THEN <<"/", "*", " ", "E", "n", "d", NL>> ELSE <<>>)

\* The line that follows the header in the source.
AfterHeader == Join(<<S_F3XN, S_C1>>, COMMA) \o <<NL>>

LegacyInputs ==
    {[dialect |-> "legacy", lines |-> lines, closed |-> closed] :
        lines \in SeqsUpTo(LegacyLines, MaxHeaderLines), closed \in BOOLEAN}

HeaderInputBytes(h) ==
    IF h.dialect = "legacy"
    THEN LegacyHeaderBytes(h.lines, h.closed)
             \o (IF h.closed THEN AfterHeader ELSE <<>>)
    ELSE Join(h.fields, h.d) \o <<NL>> \o AfterHeader

\* The fields of modern header lines: HDR,FEC,8.3,NGP8,8,R1,7 and the line
\* without the FEC field, cut after any field, and a line of a version that
\* has no schema.
Prefixes(q) == {SubSeq(q, 1, n) : n \in 1..Len(q)}

ModernFields ==
    Prefixes(<<S_HDR, S_FEC, V83, S_NGP8, <<"8">>, <<"R", "1">>, <<"7">>>>)
        \cup Prefixes(<<S_HDR, V83, S_NGP8, <<"8">>, <<"R", "1">>, <<"7">>>>)
        \cup {<<S_HDR, V202, S_NGP8>>}

ModernInputs ==
    {[dialect |-> "modern", fields |-> f, d |-> d] :
        f \in ModernFields, d \in {COMMA, FS}}

\* Legacy headers about as long as the decoder allows: the three keys, then
\* lines of another key.
LongLengths == {99, 100, 101, 102}

LongLines(n) ==
    [i \in 1..n |->
        IF i = 1 THEN KV(<<"F","E","C","_","V","e","r","_","#">>, V202)
        ELSE IF i = 2 THEN KV(<<"S","o","f","t","_","N","a","m","e">>,
                              <<"F","E","C">>)
        ELSE IF i = 3 THEN KV(<<"S","O","F","T","_","V","E","R","#">>, <<"3">>)
        ELSE KV(<<"k">>, <<"v">>)]

LongInputs ==
    {[dialect |-> "legacy", lines |-> LongLines(n), closed |-> closed] :
        n \in LongLengths, closed \in BOOLEAN}

\* A modern and a legacy header that decode, each behind one or two empty
\* lines.
BlankLedInputs ==
    {[dialect |-> "blank_led", blanks |-> n, inner |-> h] :
        n \in {1, 2},
        h \in {[dialect |-> "modern",
                fields |-> <<S_HDR, S_FEC, V83, S_NGP8, <<"8">>>>, d |-> FS],
               [dialect |-> "legacy", lines |-> LongLines(3), closed |-> TRUE]}}

HeaderInputs == LegacyInputs \cup ModernInputs \cup LongInputs \cup BlankLedInputs

\* The bytes of the source: the header, behind its empty lines if it has any.
SourceBytes(h) ==
    IF h.dialect = "blank_led"
    THEN [i \in 1..h.blanks |-> NL] \o HeaderInputBytes(h.inner)
    ELSE HeaderInputBytes(h)

InitHeader ==
    /\ InitRegistry
    /\ \E h \in HeaderInputs :
          /\ filing = Some(h)
          /\ input = SourceBytes(h)
    /\ fec = from_reader
    /\ InitNoWriters

\* header::parse_header on the source, from its start.
ParseHeader ==
    /\ last.op = "none"
    /\ LET done(r) ==
              /\ last' = [op |-> "parse_header", res |-> r.res, pos |-> r.pos]
              /\ CACHE' = r.cache
              /\ heap' = r.heap
       IN  done(parse_header(input, 0, CACHE, heap))
    /\ UNCHANGED <<input, filing, fec, emitted, hspan, nheader, ncover,
                   outcomes, pc, tkey, tlocal, returned, writes, ncalls,
                   parseVars, writerVars>>

NextHeader == ParseHeader

SpecHeader == InitHeader /\ [][NextHeader]_vars

HeaderParsed == last.op = "parse_header"

(***************************************************************************)
(* The legacy header.                                                      *)
(***************************************************************************)
\* The key occurs on a line of the header, whatever its case.
Occurs(lines, k) ==
    \E i \in 1..Len(lines) : lines[i].kv /\ to_lowercase(lines[i].key) = k

\* The value of the last line of the key.
ValueOf(lines, k) ==
    LET at == {i \in 1..Len(lines) :
                  lines[i].kv /\ to_lowercase(lines[i].key) = k}
    IN  lines[CHOOSE i \in at : \A j \in at : j <= i].value

\* The message for a key that is missing.
MissingMessage(k) ==
    IF k = K_FEC_VER THEN "missing FEC_Ver_#"
    ELSE IF k = K_SOFT_NAME THEN "missing Soft_Name"
    ELSE "missing Soft_Ver#"

LegacyKeys == {K_FEC_VER, K_SOFT_NAME, K_SOFT_VER}

VersionField(fields) == IF fields[2] = S_FEC THEN fields[3] ELSE fields[2]

\* The field names that the winning entry of the mappings lists for a line.
EntryNames(version, line_code) ==
    LET p == FirstPair(version, line_code)
    IN  MAPPINGS[p[1]].versions[p[2]].fields

\* The names of the fields of a header line, from the line code on: the
\* names the entry lists, without the second of them when the line has no
\* FEC field.
HeaderNames(fields) ==
    LET names == EntryNames(VersionField(fields), fields[1])
    IN  IF fields[2] = S_FEC THEN names
        ELSE <<names[1]>> \o SubSeq(names, 3, Len(names))

\* The field of the line under a name of the list, the list naming the
\* fields of the line from the line code on; None when the list has no such
\* name or the line ends before the field.
FieldUnder(names, fields, name) ==
    LET at == {i \in 1..Len(names) : names[i] = name}
        i  == CHOOSE i \in at : \A j \in at : i <= j
    IN  IF at = {} THEN None
        ELSE IF i > Len(fields) THEN None
        ELSE Some(fields[i])

\* The header line has its version field and the version has a schema.
DecodableHeader(fields) ==
    /\ Len(fields) >= 2
    /\ fields[2] = S_FEC => Len(fields) >= 3
    /\ MatchingPairs(VersionField(fields), fields[1]) # {}

\* C26: in a modern header fec_version is the third field when the second is
\* FEC and the second otherwise; software_name, software_version, report_id
\* and report_number are the fields of the line under the schema names
\* soft_name, soft_ver, report_id and report_number; the decoding fails only
\* when there is no soft_name.
C26_ModernHeaderFieldsByName ==
    (HeaderParsed /\ filing.v.dialect = "modern"
                  /\ DecodableHeader(filing.v.fields)) =>
        LET fields == filing.v.fields
            names  == HeaderNames(fields)
        IN  /\ last.res.kind = "ok" <=>
                  FieldUnder(names, fields, "soft_name").some
            /\ last.res.kind = "ok" =>
                  /\ last.res.v.header.fec_version = VersionField(fields)
                  /\ last.res.v.header.software_name
                         = FieldUnder(names, fields, "soft_name").v
                  /\ last.res.v.header.software_version
                         = FieldUnder(names, fields, "soft_ver")
                  /\ last.res.v.header.report_id
                         = FieldUnder(names, fields, "report_id")
                  /\ last.res.v.header.report_number
                         = FieldUnder(names, fields, "report_number")

(***************************************************************************)
(* The delimiter.                                                          *)
(***************************************************************************)
\* The first line of the header that was decoded over the span, without its
\* newline.
HeaderFirstLine(span) ==
    LET first(end) ==
            SubSeq(input, span.from + 1,
                   IF input[end] = NL THEN end - 1 ELSE end)
    IN  first(CHOOSE q \in (span.from + 1)..Len(input) :
                  /\ input[q] = NL \/ q = Len(input)
                  /\ \A r \in (span.from + 1)..(q - 1) : input[r] # NL)

\* The delimiter of the filing: 0x1C when the header is modern and its line
\* holds that byte, the comma otherwise.
DelimiterOf(first_line) ==
    IF /\ ~HasSlashStar(first_line, 1, Len(first_line))
       /\ \E i \in 1..Len(first_line) : first_line[i] = FS
    THEN FS ELSE COMMA

\* The text of the line of the input that ends at position end.
LineEndingAt(end) ==
    LET from(start) ==
            SubSeq(input, start, IF input[end] = NL THEN end - 1 ELSE end)
    IN  from(CHOOSE i \in 1..end :
                 /\ i = 1 \/ input[i - 1] = NL
                 /\ \A j \in i..(end - 1) : input[j] # NL)

\* C27: the delimiter that the header decoder returns is 0x1C if and only if
\* the header is modern and its first line holds the byte 0x1C, and the comma
\* in every other case; the delimited reader is attached with that delimiter,
\* and every line that next_line returns is the line of the input split on
\* exactly that delimiter.
C27_OneDelimiterForTheFiling ==
    /\ [](fec.sep.some =>
            /\ hspan.some
            /\ fec.sep.v = (IF DelimiterOf(HeaderFirstLine(hspan.v)) = FS
                            THEN "Ascii28" ELSE "Comma")
            /\ fec.csv_reader.some =>
                  fec.csv_reader.v.delimiter
                      = DelimiterOf(HeaderFirstLine(hspan.v)))
    /\ [][(last'.op = "next_line" /\ last'.res.kind = "ok") =>
              last'.res.v = split(LineEndingAt(fec'.csv_reader.v.pos),
                                  DelimiterOf(HeaderFirstLine(hspan'.v)))]_vars

\* Under a header with 0x1C, next_line returned a line with a comma inside a
\* field.
C27_Witness ==
    /\ fec.sep = Some("Ascii28")
    /\ last.op = "next_line" /\ last.res.kind = "ok"
    /\ last.res.v = <<S_SA11, <<"C", COMMA, "1">>, S_T1>>

(***************************************************************************)
(* The hand-off of the byte source.                                        *)
(***************************************************************************)
\* C28: the byte source is handed to the delimited reader exactly once: the
\* FecFile holds either the source or the reader and never both or neither,
\* the reader is attached only when the header was decoded, where the header
\* decoder left the source, and a reader that is attached is never built
\* again.
C28_SourceHandedOverOnce ==
    /\ [](/\ fec.reader.some # fec.csv_reader.some
          /\ fec.csv_reader.some =>
                /\ fec.header.some /\ fec.sep.some
                /\ hspan.some /\ fec.csv_reader.v.start = hspan.v.to)
    /\ [][/\ fec.csv_reader.some =>
                /\ fec'.csv_reader.some
                /\ fec'.csv_reader.v.start = fec.csv_reader.v.start
                /\ fec'.csv_reader.v.delimiter = fec.csv_reader.v.delimiter
                /\ fec'.csv_reader.v.pos >= fec.csv_reader.v.pos
          /\ (fec.reader.some /\ fec'.csv_reader.some) =>
                /\ fec'.header.some
                /\ fec'.csv_reader.v.start >= fec.reader.v ]_vars

\* The reader is attached, lines were taken from it, and get_header and
\* get_cover were called again after that.
C28_Witness ==
    /\ fec.csv_reader.some /\ ~fec.reader.some
    /\ emitted # <<>>
    /\ last.op = "get_cover" /\ last.res.kind = "ok"
    /\ fec.csv_reader.v.pos > fec.csv_reader.v.start

(***************************************************************************)
(* The schema of a winning entry.                                          *)
(***************************************************************************)
\* C29 as stated: the schema of a key that resolves has one FieldSchema for
\* every field name of the winning entry's list, in the order of the list,
\* each of type String, and its code is the line code of the key.
C29_SchemaHasEveryName ==
    \A e \in returned :
        e.res.ok =>
            LET names  == EntryNames(e.key.version, e.key.line_code)
                fields == SchemaOf(e).fields
            IN  /\ SchemaOf(e).code = e.key.line_code
                /\ Len(fields) = Len(names)
                /\ \A i \in 1..Len(names) :
                      fields[i] = [name |-> names[i], typ |-> "String"]

\* C29, amended: the schema of a key that resolves has one FieldSchema for
\* every field name of the winning entry's list but the first, in the order
\* of the list, each of type String, and its code is the line code of the
\* key.
C29_SchemaHasEveryNameButTheFirst ==
    \A e \in returned :
        e.res.ok =>
            LET names  == EntryNames(e.key.version, e.key.line_code)
                fields == SchemaOf(e).fields
            IN  /\ SchemaOf(e).code = e.key.line_code
                /\ Len(fields) = Len(names) - 1
                /\ \A i \in 1..Len(fields) :
                      fields[i] = [name |-> names[i + 1], typ |-> "String"]

\* The schema of SA11 under 8.3 was vended: three fields for a list of four
\* names.
C29_Witness ==
    \E e \in returned :
        /\ e.res.ok
        /\ e.key = Key(V83, S_SA11)
        /\ Len(EntryNames(V83, S_SA11)) = 4
        /\ Len(SchemaOf(e).fields) = 3
        /\ SchemaOf(e).fields[1].name = "filer_committee_id_number"

(***************************************************************************)
(* The ceiling on the lines of a legacy header.                            *)
(***************************************************************************)
\* The decoder gave up on a header that is too long.
CeilingError ==
    /\ last.res.kind = "err"
    /\ last.res.err.message = "more than 100 lines in header"

\* C30: a legacy header with at most 100 lines between its opening and its
\* closing line is accepted; with more than 100 lines the decoding fails as
\* soon as line 101 is read: the source stands at the end of that line and
\* the bytes read end there.
C30_LegacyHeaderCeiling ==
    (HeaderParsed /\ filing.v.dialect = "legacy") =>
        LET lines == filing.v.lines
            upto  == LegacyHeaderBytes(SubSeq(lines, 1, 101), FALSE)
        IN  IF Len(lines) <= 100
            THEN /\ ~CeilingError
                 /\ (filing.v.closed /\ \A k \in LegacyKeys : Occurs(lines, k))
                        => last.res.kind = "ok"
            ELSE /\ CeilingError
                 /\ last.pos = Len(upto)
                 /\ last.res.err.read = SubSeq(upto, 1, Len(upto) - 1)

\* A header of 100 lines was accepted.
C30_Witness ==
    /\ HeaderParsed /\ filing.v.dialect = "legacy"
    /\ Len(filing.v.lines) = 100
    /\ last.res.kind = "ok"
    /\ last.pos = Len(LegacyHeaderBytes(filing.v.lines, TRUE))

(***************************************************************************)
(* Empty lines before the header.                                          *)
(***************************************************************************)
\* The header and the delimiter that parse_header gives on the bytes, None
\* when it fails.
DecodedFrom(bytes) ==
    LET of(r) == IF r.res.kind = "ok" THEN Some(r.res.v) ELSE None
    IN  of(parse_header(bytes, 0, {}, <<>>))

\* C31: the dialect is chosen on the first line of the input that is not
\* empty: a header behind empty lines decodes to the header and the delimiter
\* that it decodes to without them.
C31_EmptyLinesBeforeHeaderSkipped ==
    (HeaderParsed /\ filing.v.dialect = "blank_led") =>
        /\ last.res.kind = "ok"
        /\ Some(last.res.v) = DecodedFrom(HeaderInputBytes(filing.v.inner))

(***************************************************************************)
(* Record::get_value on its own: one call on a record.                     *)
(***************************************************************************)
MaxFields == 3

FieldNames == {"amount", "name"}

\* Schemas of up to MaxFields fields, with names that repeat.
NamedSchemas ==
    {[code |-> S_SA11,
      fields |-> [i \in 1..Len(names) |-> [name |-> names[i], typ |-> "String"]]] :
        names \in SeqsUpTo(FieldNames, MaxFields)}

RecordValues ==
    {Value("String", Some(<<"x">>)), Value("String", Some(<<"y">>)),
     Value("String", None)}

Records ==
    {[schema |-> schema, values |-> values] :
        schema \in NamedSchemas, values \in SeqsUpTo(RecordValues, MaxFields)}

InitRecord ==
    /\ InitRegistry
    /\ \E record \in Records : filing = Some(record)
    /\ input = <<>>
    /\ fec = [reader |-> None, header |-> None, cover |-> None,
              sep |-> None, csv_reader |-> None]
    /\ InitNoWriters

\* Record::get_value(field_name) on the record.
GetValue(field_name) ==
    /\ last.op = "none"
    /\ last' = [op |-> "get_value", name |-> field_name,
                res |-> get_value(filing.v, field_name)]
    /\ UNCHANGED <<input, filing, fec, emitted, hspan, nheader, ncover,
                   outcomes, CACHE, heap, pc, tkey, tlocal, returned, writes,
                   ncalls, parseVars, writerVars>>

NextRecord == \E field_name \in FieldNames \cup {"other"} : GetValue(field_name)

SpecRecord == InitRecord /\ [][NextRecord]_vars

\* C32: get_value(name) returns the value at the position of the first schema
\* field of that name, and None when no schema field has the name or the
\* record has no value at that position.
C32_GetValueFirstFieldOfName ==
    last.op = "get_value" =>
        LET fields == filing.v.schema.fields
            values == filing.v.values
            first(i) == /\ fields[i].name = last.name
                        /\ \A j \in 1..(i - 1) : fields[j].name # last.name
        IN  /\ \A i \in 1..Len(fields) :
                  first(i) => last.res = (IF i <= Len(values)
                                          THEN Some(values[i]) ELSE None)
            /\ (\A i \in 1..Len(fields) : fields[i].name # last.name)
                  => last.res = None

\* The name is that of the first and the third field, the two values differ,
\* and the call returned the first.
C32_Witness ==
    /\ last.op = "get_value"
    /\ Len(filing.v.schema.fields) = 3 /\ Len(filing.v.values) = 3
    /\ filing.v.schema.fields[1].name = last.name
    /\ filing.v.schema.fields[2].name # last.name
    /\ filing.v.schema.fields[3].name = last.name
    /\ filing.v.values[1] # filing.v.values[3]
    /\ last.res = Some(filing.v.values[1])

(***************************************************************************)
(* The FecFile driven by next_line alone.                                  *)
(***************************************************************************)
\* More next_line calls than a filing of the model has lines.
MaxAloneCalls == 8

\* A fresh FecFile over the input, with the registry as it starts.
FreshWorld == [fec |-> from_reader, cache |-> {}, heap |-> <<>>,
               hspan |-> None, nheader |-> 0, ncover |-> 0]

\* k calls of next_line and nothing else: the FecFile they leave and the
\* lines they returned, in order.
RECURSIVE next_line_alone(_, _, _)
next_line_alone(w, lines, k) ==
    LET step(r) ==
            IF r.res.kind = "ok"
            THEN next_line_alone(r.w, Append(lines, r.res.v), k - 1)
            ELSE next_line_alone(r.w, lines, k - 1)
    IN  IF k = 0 THEN [w |-> w, lines |-> lines]
        ELSE step(next_line(w))

IsPrefixOf(s, t) == Len(s) <= Len(t) /\ s = SubSeq(t, 1, Len(s))

\* What a run of get_header, get_cover and next_line calls has seen against
\* what next_line alone sees of the same input.
SameAsAlone(alone) ==
    /\ IsPrefixOf(emitted, alone.lines)
    /\ fec.header.some => fec.header = alone.w.fec.header
    /\ fec.cover.some => fec.cover = alone.w.fec.cover
    /\ (last.op = "next_line" /\ last.res.kind = "none")
          => emitted = alone.lines

\* C33: whatever the order of get_header, get_cover and next_line calls on a
\* fresh FecFile, the header and the cover it holds and the lines next_line
\* has returned are those that next_line calls alone give on the same input:
\* a getter takes no line away from next_line.
C33_GettersTakeNoLine ==
    SameAsAlone(next_line_alone(FreshWorld, <<>>, MaxAloneCalls))

\* A getter was called after next_line had returned two lines, and the lines
\* are all that next_line alone returns.
C33_Witness ==
    /\ last.op \in {"get_header", "get_cover"}
    /\ Len(emitted) = 2
    /\ emitted = next_line_alone(FreshWorld, <<>>, MaxAloneCalls).lines

(***************************************************************************)
(* LineIter: next_line called again and again on a FecFile.                *)
(***************************************************************************)
NextLines == NextLine

\* A next_line call would change the FecFile or what the last call returned.
NextLineAdvances ==
    LET differs(r) == \/ r.w # World
                      \/ last # [op |-> "next_line", res |-> r.res]
                      \/ r.res.kind = "ok"
    IN  differs(next_line(World))

SpecLines == InitFec /\ [][NextLines]_vars

\* C34: on every input, next_line called again and again returns None in the
\* end, also on a valid header with no line after it and on an invalid header.
\* next_line is a function of the FecFile and the input, and every call that
\* changes the FecFile moves it forward in the input: the calls come to a
\* state that a further call leaves as it is, where every later call returns
\* what the last one did.  The claim is that this is None.
C34_NextLineReachesEnd ==
    (last.op = "next_line" /\ ~NextLineAdvances) => last.res.kind = "none"

\* finish was called on the writer of the code in an earlier finish call.
FinishedBefore(code) ==
    \E i \in DOMAIN whist.finishes :
        \E j \in DOMAIN whist.finishes[i].finished :
            whist.finishes[i].finished[j] = code

\* The step forwarded a record to a writer the MultiRecordWriter held before
\* the step: the factory was not asked for a writer.
ForwardedToHeldWriter ==
    /\ Len(whist'.forwarded) = Len(whist.forwarded) + 1
    /\ whist'.made = whist.made

\* C35: no writer of a MultiRecordWriter receives write_record after its
\* finish was called: after a finish a record of a code seen before goes to a
\* writer made anew.
C35_NoWriteAfterFinish ==
    [][ForwardedToHeldWriter =>
           ~FinishedBefore(whist'.forwarded[Len(whist'.forwarded)].to)]_vars

\* C36: every record forwarded to a writer has the ordered field list of the
\* schema the writer was created with, also when records of one line code
\* come with the schemas of different versions.
C36_ForwardedRecordsFitTheWriter ==
    \A i \in DOMAIN whist.forwarded :
        \A e \in mw.writers :
            e.key.code = whist.forwarded[i].to
                => e.writer.schema.fields = whist.forwarded[i].record.schema.fields

\* C37: within one MultiRecordWriter over a file factory, the writers of two
\* distinct schema codes are never bound to the same file path.
C37_DistinctCodesDistinctPaths ==
    \A a, b \in mw.writers :
        a.key.code # b.key.code => a.writer.path # b.writer.path

\* The first line after the cover line that has no schema or more values
\* than its schema; one past the last line when there is none.
FirstBadLine ==
    LET bad == {i \in 2..Len(filing.v.body) :
                   ~WellFormedLine(VersionOf(filing.v.h), filing.v.body[i])}
    IN  IF bad = {} THEN Len(filing.v.body) + 1
        ELSE CHOOSE i \in bad : \A j \in bad : i <= j

\* What one call of process on a fresh processor and FecFile left behind:
\* h is the history after the call, res what the call gave.
FirstRunStopsAtFirstError(h, res) ==
    /\ (h.finishes # <<>>) <=> ProcessableFiling
    /\ ~ValidFiling =>
          /\ res.kind = "err"
          /\ h.records = <<>>
    /\ ValidFiling =>
          /\ Len(h.records) = FirstBadLine - 2
          /\ Len(h.forwarded) = FirstBadLine - 2
          /\ \A i \in 1..(FirstBadLine - 2) :
                /\ h.forwarded[i].res = Ok(Unit)
                /\ h.records[i].schema.code = filing.v.body[i + 1][1]
    /\ (ValidFiling /\ ~ProcessableFiling) =>
          /\ res.kind # "ok"
          /\ ~do_lookup(VersionOf(filing.v.h), filing.v.body[FirstBadLine][1]).ok
                => res.kind = "err"

\* C38: process returns the first error met while a line is read, parsed or
\* written and goes no further; the writers are finished exactly when every
\* line was processed without error, so a run that failed finished no writer.
C38_ProcessStopsAtFirstError ==
    [][wlast'.op = "process" =>
          /\ (Len(whist'.finishes) > Len(whist.finishes))
                <=> (wlast'.res = Ok(Unit))
          /\ whist.calls = <<>> => FirstRunStopsAtFirstError(whist', wlast'.res)]_vars

\* A run wrote a line, failed on the next with an error, and finished no
\* writer.
C38_Witness ==
    /\ whist.calls = <<"process">>
    /\ wlast.res.kind = "err"
    /\ Len(whist.forwarded) = 1
    /\ Len(filing.v.body) = 3
    /\ whist.finishes = <<>>
    /\ mw.writers # {}

\* The raw values are no more than the fields of the schema and each parses
\* under the type of its field.
EveryFieldCoerces(schema, raw) ==
    /\ Len(raw) <= Len(schema.fields)
    /\ \A i \in 1..Len(raw) :
          parse_to_value(schema.fields[i].typ, Some(raw[i])).kind = "ok"

\* One absent value of its type for every schema field after the first n.
AbsentFrom(schema, n) ==
    [i \in 1..(Len(schema.fields) - n) |-> Value(schema.fields[n + i].typ, None)]

\* What the two policies give on the same raw values, and the call made.
PoliciesAgree(schema, raw, out, lit, co) ==
    /\ lit.kind = "ok" /\ co.kind = "ok"
    /\ co.v = lit.v \o AbsentFrom(schema, Len(raw))
    /\ out \in {lit, co}

\* C39: on raw values that are no more than the schema's fields and all
\* coerce, the coercing policy gives the values of the literal policy followed
\* by one absent value of its type per remaining field of the schema, and the
\* records of the two policies carry the same schema.
C39_CoercingIsLiteralPadded ==
    (/\ pcall.op # "none" /\ pcall.schema.some
     /\ EveryFieldCoerces(pcall.schema.v, pcall.raw)) =>
        /\ PoliciesAgree(pcall.schema.v, pcall.raw, pcall.out,
                         literal_parse_values(pcall.schema.v, pcall.raw),
                         coercing_parse_values(pcall.schema.v, pcall.raw))
        /\ pcall.op = "parse_line" =>
              LET same(l, c) == /\ l.out.kind = "ok" /\ c.out.kind = "ok"
                                /\ l.out.v.schema = c.out.v.schema
                                /\ l.out.v.schema = pcall.schema.v
              IN  same(parse_line("literal", CACHE, heap, pcall.version, pcall.line),
                       parse_line("coercing", CACHE, heap, pcall.version, pcall.line))

\* The coercing policy was given one raw value, with blanks around it, under a
\* schema of three fields, and gave the trimmed value and two absent Integers.
C39_Witness ==
    /\ pcall.op = "parse_values" /\ pcall.policy = "coercing"
    /\ pcall.raw = << <<" ", "x", " ">> >>
    /\ Len(pcall.schema.v.fields) = 3
    /\ pcall.out = Ok(<<Value("String", Some(<<"x">>)), Value("Integer", None),
                        Value("Integer", None)>>)

====
